---- MODULE Spec2Model ----
(***************************************************************************)
(* Pipeline-parallel inference worker of form-inference                    *)
(* (src/form-inference/src/worker.py, run_worker; the class-based          *)
(* GPT2Worker.run and DeepSeekWorker.run are line-for-line the same        *)
(* protocol).  One process per rank; every rank executes run_worker.       *)
(***************************************************************************)
EXTENDS Integers, Sequences, FiniteSets, TLC

(* ---------------------------- bounds ---------------------------------- *)
MaxWorld == 3
MaxLayers == 3
PartMaxWorld == 4
PartMaxLayers == 12
HiddenDim == 2
MaxDim == 2
MaxTextLen == 2
MaxBytes == 2
MaxNodes == 2
MaxRequests == 2
MaxTimeout == 2
MaxInterval == 2
MaxFollowUps == 2
MaxHistory == 2

(* ------------------------- text and tokens ---------------------------- *)
\* Texts are sequences of Unicode code points: 'h', e-acute (2 UTF-8
\* bytes), euro sign (3 UTF-8 bytes).
Prompts == { <<104>>, <<233, 104>> }

\* tokenizer.eos_token_id, the only special token the model emits.
EosToken == 0

\* New tokens model.generate may sample (do_sample=True) after the prompt.
Continuations == { <<>>, <<8365>>, <<105, EosToken>> }

\* tokenizer.encode: one token id per code point (ids are code point + 1,
\* id 0 is the end-of-sequence token).
Tokenize(text) == [i \in 1..Len(text) |-> text[i] + 1]

RECURSIVE Detokenize(_)
\* tokenizer.decode(ids, skip_special_tokens=True)
Detokenize(ids) ==
    IF ids = <<>> THEN <<>>
    ELSE IF Head(ids) = EosToken THEN Detokenize(Tail(ids))
    ELSE <<Head(ids) - 1>> \o Detokenize(Tail(ids))

\* str.encode("utf-8") of one code point
Utf8OfCodePoint(c) ==
    IF c < 128 THEN <<c>>
    ELSE IF c < 2048 THEN <<192 + (c \div 64), 128 + (c % 64)>>
    ELSE IF c < 65536
         THEN <<224 + (c \div 4096), 128 + ((c \div 64) % 64), 128 + (c % 64)>>
    ELSE <<240 + (c \div 262144), 128 + ((c \div 4096) % 64),
           128 + ((c \div 64) % 64), 128 + (c % 64)>>

RECURSIVE Utf8Encode(_)
\* generated_sentence.encode("utf-8")
Utf8Encode(text) ==
    IF text = <<>> THEN <<>>
    ELSE Utf8OfCodePoint(Head(text)) \o Utf8Encode(Tail(text))

IsCont(b) == b >= 128 /\ b < 192

\* Result of a decoding: ok = FALSE stands for UnicodeDecodeError.
DecodeError == [ok |-> FALSE, text |-> <<>>]

\* Variant: bytes.decode("latin-1"), one code point per byte.
Latin1Decode(bytes) == [ok |-> TRUE, text |-> bytes]

RECURSIVE Utf8Decode(_)
\* bytes.decode("utf-8") (strict)
Utf8Decode(bytes) ==
    IF bytes = <<>> THEN [ok |-> TRUE, text |-> <<>>]
    ELSE LET b == bytes[1]
             n == IF b < 128 THEN 1
                  ELSE IF b >= 194 /\ b < 224 THEN 2
                  ELSE IF b >= 224 /\ b < 240 THEN 3
                  ELSE IF b >= 240 /\ b < 245 THEN 4
                  ELSE 0
         IN IF n = 0 \/ Len(bytes) < n THEN DecodeError
            ELSE IF \E i \in 2..n : ~IsCont(bytes[i]) THEN DecodeError
            ELSE LET cp == IF n = 1 THEN b
                           ELSE IF n = 2 THEN (b - 192) * 64 + (bytes[2] - 128)
                           ELSE IF n = 3
                                THEN (b - 224) * 4096 + (bytes[2] - 128) * 64
                                     + (bytes[3] - 128)
                           ELSE (b - 240) * 262144 + (bytes[2] - 128) * 4096
                                + (bytes[3] - 128) * 64 + (bytes[4] - 128)
                     minimal == IF n = 1 THEN TRUE
                                ELSE IF n = 2 THEN cp >= 128
                                ELSE IF n = 3 THEN cp >= 2048
                                ELSE cp >= 65536
                     rest == Utf8Decode(SubSeq(bytes, n + 1, Len(bytes)))
                 IN IF ~minimal \/ ~rest.ok THEN DecodeError
                    ELSE [ok |-> TRUE, text |-> <<cp>> \o rest.text]

(* ----------------------------- tensors -------------------------------- *)
RECURSIVE Numel(_)
\* number of elements of a tensor of the given shape
Numel(shape) == IF shape = <<>> THEN 1 ELSE Head(shape) * Numel(Tail(shape))

\* Variant: the dimensions are written in reverse order.
ShapeTensorReversed(shape) ==
    [shape |-> <<Len(shape)>>,
     data |-> [i \in 1..Len(shape) |-> shape[Len(shape) + 1 - i]]]

\* torch.tensor(t.shape, dtype=torch.int64): the 1-D tensor holding a shape
ShapeTensor(shape) == [shape |-> <<Len(shape)>>, data |-> shape]

\* An unassigned local tensor variable.
NoTensor == [shape |-> <<>>, data |-> <<>>]

\* Variant: the embedding drops the batch dimension.
EmbedSqueezed(ids) == [shape |-> <<Len(ids.data), HiddenDim>>,
                       data |-> [ids |-> ids.data, layers |-> <<>>]]

\* model.transformer.wte(input_ids): activations of shape (1, n, hidden);
\* the payload is abstracted as the token ids it was computed from and the
\* list of transformer blocks applied so far.
Embed(ids) == [shape |-> <<1, Len(ids.data), HiddenDim>>,
               data |-> [ids |-> ids.data, layers |-> <<>>]]

RECURSIVE ApplyLayersInclusive(_, _, _)
\* Variant: the loop also applies layer end.
ApplyLayersInclusive(h, start, end) ==
    IF start > end THEN h
    ELSE ApplyLayersInclusive([h EXCEPT !.data.layers = Append(@, start)],
                              start + 1, end)

RECURSIVE ApplyLayers(_, _, _)
\* for i in range(start_layer, end_layer): h = model.transformer.h[i](h)[0]
ApplyLayers(h, start, end) ==
    IF start >= end THEN h
    ELSE ApplyLayers([h EXCEPT !.data.layers = Append(@, start)],
                     start + 1, end)

(* --------------------------- partitioning ----------------------------- *)
\* Variant: the last rank is treated like the others (no remainder).
PartitionNoRemainder(total, world, rank) ==
    LET layers_per_node == total \div world
        start_layer == rank * layers_per_node
    IN [start |-> start_layer, end |-> start_layer + layers_per_node]

\* Variant: layers_per_node rounded up instead of down.
PartitionCeil(total, world, rank) ==
    LET layers_per_node == (total + world - 1) \div world
        start_layer == rank * layers_per_node
        end_layer == IF rank < world - 1 THEN start_layer + layers_per_node
                     ELSE total
    IN [start |-> start_layer, end |-> end_layer]

\* worker.py:35-39
Partition(total, world, rank) ==
    LET layers_per_node == total \div world
        start_layer == rank * layers_per_node
        end_layer == IF rank < world - 1 THEN start_layer + layers_per_node
                     ELSE total
    IN [start |-> start_layer, end |-> end_layer]

NoRange == [start |-> -1, end |-> -1]

(* --------------------------- python values ---------------------------- *)
Unbound == [tag |-> "unbound", text |-> <<>>]
None == [tag |-> "None", text |-> <<>>]
Str(t) == [tag |-> "str", text |-> t]

Running == [kind |-> "running", value |-> Unbound, error |-> "none"]
Returned(v) == [kind |-> "returned", value |-> v, error |-> "none"]
Raised(e) == [kind |-> "raised", value |-> Unbound, error |-> e]

NoFailure == [site |-> "none", error |-> "none"]

VARIABLES
    world_size,          \* argument world_size of every rank's call
    total_layers,        \* len(model.transformer.h)
    input_data,          \* argument input_data
    pc,                  \* position of each rank in run_worker
    pg,                  \* state of each rank's default process group
    layer_range,         \* (start_layer, end_layer) of each rank
    received_text,       \* local received_text
    hidden_states,       \* hidden_states / recv_hidden_states
    input_ids,           \* input_ids / recv_input_ids
    shape_buf,           \* hidden_states_shape / input_ids_shape buffers
    text_length,         \* text_length (rank 0: received; last: sent)
    recv_buffer,         \* recv_buffer of rank 0
    generated_sentence,  \* generated_sentence of the last rank
    chan,                \* messages in flight, per directed link
    posted,              \* rank is inside dist.send, message handed over
    failure,             \* first exception raised inside the try block
    outcome,             \* how each rank's call ended
    log,                 \* per rank, the distributed operations it called
    nodes_list,          \* form_mock.py nodes_list: the registered node ids
    node_id,             \* self.node_id of each node's Service
    process,             \* each node's service process
    group,               \* each node's process-wide default process group
    request,             \* per node, the /execute requests and their locals
    generation_config,   \* the generation options the caller wants used
    generated_ids,       \* the final rank's sequence inside model.generate
    port,                \* self.port of each node's Service
    broadcast,           \* the /generate request being broadcast
    operation,           \* the MCP server's record of a long-running operation
    waiting,             \* the locals of a wait_for_operation call
    conversation_state   \* backend/main.py conversation_state

vars == <<world_size, total_layers, input_data, pc, pg, layer_range,
          received_text, hidden_states, input_ids, shape_buf, text_length,
          recv_buffer, generated_sentence, chan, posted, failure, outcome,
          log, nodes_list, node_id, process, group, request,
          generation_config, generated_ids, port, broadcast, operation,
          waiting, conversation_state>>

\* The state of the services around the runs (service.py, form_mock.py).
service == <<nodes_list, node_id, process, group, request>>

\* The state of what is modelled around run_worker's own steps: the
\* inside of model.generate, the ports and the broadcast of a request.
decoding == <<generated_ids>>
broadcasting == <<port, broadcast>>
clients == <<operation, waiting, conversation_state>>
elsewhere == <<decoding, broadcasting, clients>>

\* What no step of a run changes: its arguments, the services' state, the
\* caller's wishes and the state modelled elsewhere.
params == <<world_size, total_layers, input_data, service, generation_config,
            elsewhere>>
locals == <<hidden_states, input_ids, shape_buf, text_length, recv_buffer,
            generated_sentence>>

\* The ranks that run: 0..world_size-1; a call with world_size = 0 is a
\* single call with rank 0.
Procs == 0..(IF world_size = 0 THEN 0 ELSE world_size - 1)
Links == Procs \X Procs
Last == world_size - 1


(* ------------------------------ Init ---------------------------------- *)
\* The nodes that may run a Service, and the /execute requests each may get.
Nodes == 0..(MaxNodes - 1)
Requests == 1..MaxRequests

NoId == -1
NoRequest == [pc |-> "idle", rank |-> -1, world_size |-> -1, node_ids |-> <<>>,
              error |-> "none"]

\* The caller has no wishes about the generation.
NoConfig == [max_new_tokens |-> -1, do_sample |-> FALSE, top_k |-> -1,
             temperature |-> -1]

\* No Service has been constructed yet, the registry is empty.
ServiceInit ==
    /\ nodes_list = <<>>
    /\ node_id = [n \in Nodes |-> NoId]
    /\ process = [n \in Nodes |-> "starting"]
    /\ group = [n \in Nodes |-> "none"]
    /\ request = [n \in Nodes |-> [k \in Requests |-> NoRequest]]

\* model.generate has not been entered.
DecodeIdle == generated_ids = <<>>

\* No Service has bound a port, no /generate request has arrived.
NoPort == -1
NoBroadcast == [pc |-> "idle", origin |-> -1, max_workers |-> -1, nodes |-> <<>>]
BroadcastIdle ==
    /\ port = [n \in Nodes |-> NoPort]
    /\ broadcast = NoBroadcast

\* No operation is being waited for, no conversation has been started.
NoTimeout == -1
NoConversation == [asking_llm |-> 0]
NoOperation == [status |-> "none"]
NoWaiting == [pc |-> "idle", timeout |-> NoTimeout, check_interval |-> 0,
              elapsed |-> 0, outcome |-> "none"]
ClientsIdle ==
    /\ operation = NoOperation
    /\ waiting = NoWaiting
    /\ conversation_state = NoConversation

\* Nothing has happened in the parts modelled around run_worker's steps.
Elsewhere == DecodeIdle /\ BroadcastIdle /\ ClientsIdle

InitRun ==
    /\ ServiceInit
    /\ Elsewhere
    /\ generation_config = NoConfig
    /\ pg = [r \in Procs |-> "none"]
    /\ layer_range = [r \in Procs |-> NoRange]
    /\ received_text = [r \in Procs |-> Unbound]
    /\ hidden_states = [r \in Procs |-> NoTensor]
    /\ input_ids = [r \in Procs |-> NoTensor]
    /\ shape_buf = [r \in Procs |-> NoTensor]
    /\ text_length = [r \in Procs |-> 0]
    /\ recv_buffer = [r \in Procs |-> NoTensor]
    /\ generated_sentence = [r \in Procs |-> <<>>]
    /\ chan = [l \in Links |-> <<>>]
    /\ posted = [r \in Procs |-> FALSE]
    /\ failure = [r \in Procs |-> NoFailure]
    /\ outcome = [r \in Procs |-> Running]
    /\ log = [r \in Procs |-> <<>>]

\* Every rank is about to enter run_worker(rank, world_size, input_data).
Init ==
    /\ world_size \in 0..MaxWorld
    /\ total_layers \in 0..MaxLayers
    /\ input_data \in Prompts
    /\ pc = [r \in Procs |-> "start"]
    /\ InitRun

(* ----------------------------- helpers -------------------------------- *)
Goto(r, next) == pc' = [pc EXCEPT ![r] = next]

Logged(r, op, peer, what) ==
    log' = [log EXCEPT ![r] = Append(@, [op |-> op, peer |-> peer, what |-> what])]

\* An exception raised inside the try block: control moves to the finally
\* clause (worker.py:147).
Raise(r, err) ==
    /\ Goto(r, "finally")
    /\ failure' = [failure EXCEPT ![r] = [site |-> pc[r], error |-> err]]

\* dist.send(tensor, dst): blocking.  The message is handed to the
\* transport, and the call returns once the peer has received it.  A
\* destination that is not another rank of the group is rejected, and the
\* transport may fail at any point of the call.
DistSend(r, dst, tensor, what, next) ==
    \/ /\ ~posted[r]
       /\ dst \in Procs \ {r}
       /\ chan' = [chan EXCEPT ![<<r, dst>>] = Append(@, tensor)]
       /\ posted' = [posted EXCEPT ![r] = TRUE]
       /\ Logged(r, "send", dst, what)
       /\ UNCHANGED <<pc, failure>>
    \/ /\ ~posted[r]
       /\ dst \notin Procs \ {r}
       /\ Raise(r, "TransportError")
       /\ Logged(r, "send", dst, what)
       /\ UNCHANGED <<chan, posted>>
    \/ /\ posted[r]
       /\ chan[<<r, dst>>] = <<>>
       /\ Goto(r, next)
       /\ posted' = [posted EXCEPT ![r] = FALSE]
       /\ UNCHANGED <<chan, failure, log>>
    \/ /\ dst \in Procs \ {r}
       /\ Raise(r, "TransportError")
       /\ posted' = [posted EXCEPT ![r] = FALSE]
       /\ IF posted[r] THEN UNCHANGED log ELSE Logged(r, "send", dst, what)
       /\ UNCHANGED chan

\* dist.recv(buffer, src): a message from src is available and fits into
\* the buffer.  Neither run_worker nor the gloo transport compares the
\* sizes for equality: the transport only enforces that the incoming
\* message is not longer than the buffer.
CanRecv(r, src, bufShape) ==
    /\ src \in Procs \ {r}
    /\ chan[<<src, r>>] # <<>>
    /\ Numel(Head(chan[<<src, r>>]).shape) <= Numel(bufShape)

\* Variant: the payload is received into a flat buffer of the same size.
ReceivedFlat(r, src, bufShape) ==
    [shape |-> <<Numel(bufShape)>>, data |-> Head(chan[<<src, r>>]).data]

\* The buffer after the receive: its own shape, the payload of the message;
\* a shorter message fills the front of the torch.zeros buffer.
Received(r, src, bufShape) ==
    LET msg == Head(chan[<<src, r>>])
    IN [shape |-> bufShape,
        data |-> IF Numel(msg.shape) = Numel(bufShape) THEN msg.data
                 ELSE [i \in 1..Numel(bufShape) |->
                         IF i <= Len(msg.data) THEN msg.data[i] ELSE 0]]

Consume(r, src, what) ==
    /\ chan' = [chan EXCEPT ![<<src, r>>] = Tail(@)]
    /\ Logged(r, "recv", src, what)
    /\ UNCHANGED <<posted, failure>>

\* Variant: dist.recv gives up with a timeout error of its own.
RecvTimeout(r, src, what) ==
    /\ Raise(r, "TimeoutError")
    /\ Logged(r, "recv", src, what)
    /\ UNCHANGED <<chan, posted>>

\* Variant: after a failed dist.recv the rank tries the same recv again.
RecvFailRetry(r, src, what) ==
    /\ Logged(r, "recv", src, what)
    /\ UNCHANGED <<pc, failure, chan, posted>>

\* dist.recv raising (closed channel, peer gone, size mismatch).
RecvFail(r, src, what) ==
    /\ Raise(r, "TransportError")
    /\ Logged(r, "recv", src, what)
    /\ UNCHANGED <<chan, posted>>

\* An opaque failure of the model (loading, forward pass, generation).
ComputeFail(r) ==
    /\ Raise(r, "ComputeError")
    /\ UNCHANGED <<chan, posted, log>>

(* ----------------------- run_worker, common part ---------------------- *)
\* worker.py:25 init_distributed(rank, world_size)
InitDistributed(r) ==
    /\ pc[r] = "start"
    /\ Logged(r, "init", r, "process_group")
    /\ \/ /\ pg' = [pg EXCEPT ![r] = "initialized"]
          /\ Goto(r, "load")
          /\ UNCHANGED failure
       \/ /\ Raise(r, "InitError")
          /\ UNCHANGED pg
    /\ UNCHANGED <<params, layer_range, received_text, locals, chan, posted,
                   outcome>>

\* worker.py:30-31 GPT2LMHeadModel.from_pretrained / GPT2Tokenizer
LoadModel(r) ==
    /\ pc[r] = "load"
    /\ \/ /\ Goto(r, "partition")
          /\ UNCHANGED <<failure, chan, posted, log>>
       \/ ComputeFail(r)
    /\ UNCHANGED <<params, pg, layer_range, received_text, locals, outcome>>

\* worker.py:34-48 layer split and received_text = None
PartitionLayers(r) ==
    /\ pc[r] = "partition"
    /\ \/ /\ world_size = 0
          /\ Raise(r, "ZeroDivisionError")
          /\ UNCHANGED <<layer_range, received_text>>
       \/ /\ world_size # 0
          /\ layer_range' = [layer_range EXCEPT
                               ![r] = Partition(total_layers, world_size, r)]
          /\ received_text' = [received_text EXCEPT ![r] = None]
          /\ Goto(r, IF r = 0 THEN "compute" ELSE "recv_hs_shape")
          /\ UNCHANGED failure
    /\ UNCHANGED <<params, pg, locals, chan, posted, outcome, log>>

\* Variant: the teardown placed at the end of the try block, so that it is
\* skipped when an exception is pending.
FinallySkipsOnError(r) ==
    /\ pc[r] = "finally"
    /\ Goto(r, "done")
    /\ IF failure[r] = NoFailure
       THEN /\ Logged(r, "destroy", r, "process_group")
            /\ pg' = [pg EXCEPT ![r] = "destroyed"]
            /\ outcome' = [outcome EXCEPT ![r] = Returned(received_text[r])]
       ELSE /\ outcome' = [outcome EXCEPT ![r] = Raised(failure[r].error)]
            /\ UNCHANGED <<pg, log>>
    /\ UNCHANGED <<params, layer_range, received_text, locals, chan, posted,
                   failure>>

\* worker.py:147-152 finally: destroy_process_group, return received_text.
\* destroy_process_group raises when no default group exists; the return
\* statement inside finally discards a pending exception, and raises
\* UnboundLocalError when received_text was never assigned.
Finally(r) ==
    /\ pc[r] = "finally"
    /\ Logged(r, "destroy", r, "process_group")
    /\ Goto(r, "done")
    /\ IF pg[r] = "initialized"
       THEN /\ pg' = [pg EXCEPT ![r] = "destroyed"]
            /\ outcome' = [outcome EXCEPT
                             ![r] = IF received_text[r] = Unbound
                                    THEN Raised("UnboundLocalError")
                                    ELSE Returned(received_text[r])]
       ELSE /\ outcome' = [outcome EXCEPT ![r] = Raised("DestroyError")]
            /\ UNCHANGED pg
    /\ UNCHANGED <<params, layer_range, received_text, locals, chan, posted,
                   failure>>


(* --------------------------- rank 0 (entry) --------------------------- *)
StageUnchanged == UNCHANGED <<params, pg, layer_range, outcome>>

\* worker.py:54-59 tokenize, embed, apply the owned layers
Rank0Compute(r) ==
    /\ r = 0
    /\ pc[r] = "compute"
    /\ \/ LET ids == [shape |-> <<1, Len(input_data)>>,
                      data |-> Tokenize(input_data)]
          IN /\ input_ids' = [input_ids EXCEPT ![r] = ids]
             /\ hidden_states' = [hidden_states EXCEPT
                  ![r] = ApplyLayers(Embed(ids), layer_range[r].start,
                                     layer_range[r].end)]
             /\ Goto(r, "send_hs_shape")
             /\ Logged(r, "compute", r, "layers")
             /\ UNCHANGED <<failure, chan, posted>>
       \/ /\ ComputeFail(r)
          /\ UNCHANGED <<input_ids, hidden_states>>
    /\ UNCHANGED <<received_text, shape_buf, text_length, recv_buffer,
                   generated_sentence>>
    /\ StageUnchanged

\* Variant: rank 0 starts with the shape of the token ids.
Rank0SendIdsShapeFirst(r) ==
    /\ r = 0
    /\ pc[r] = "send_hs_shape"
    /\ DistSend(r, 1, ShapeTensor(input_ids[r].shape), "ids_shape", "send_hs")
    /\ UNCHANGED <<received_text, locals>>
    /\ StageUnchanged

\* worker.py:64-66 dist.send(hidden_states_shape, 1)
Rank0SendHiddenShape(r) ==
    /\ r = 0
    /\ pc[r] = "send_hs_shape"
    /\ DistSend(r, 1, ShapeTensor(hidden_states[r].shape), "hs_shape", "send_hs")
    /\ UNCHANGED <<received_text, locals>>
    /\ StageUnchanged

\* worker.py:67 dist.send(hidden_states, 1)
Rank0SendHidden(r) ==
    /\ r = 0
    /\ pc[r] = "send_hs"
    /\ DistSend(r, 1, hidden_states[r], "hs", "send_ids_shape")
    /\ UNCHANGED <<received_text, locals>>
    /\ StageUnchanged

\* worker.py:70-72 dist.send(input_ids_shape, 1)
Rank0SendIdsShape(r) ==
    /\ r = 0
    /\ pc[r] = "send_ids_shape"
    /\ DistSend(r, 1, ShapeTensor(input_ids[r].shape), "ids_shape", "send_ids")
    /\ UNCHANGED <<received_text, locals>>
    /\ StageUnchanged

\* worker.py:73 dist.send(input_ids, 1)
Rank0SendIds(r) ==
    /\ r = 0
    /\ pc[r] = "send_ids"
    /\ DistSend(r, 1, input_ids[r], "ids", "recv_len")
    /\ UNCHANGED <<received_text, locals>>
    /\ StageUnchanged

\* Variant: rank 0 waits for the result from its successor, rank 1.
Rank0RecvLengthFromNext(r) ==
    /\ r = 0
    /\ pc[r] = "recv_len"
    /\ \/ /\ CanRecv(r, 1, <<1>>)
          /\ text_length' = [text_length EXCEPT
                               ![r] = Received(r, 1, <<1>>).data[1]]
          /\ Consume(r, 1, "len")
          /\ Goto(r, "recv_text")
       \/ /\ RecvFail(r, 1, "len")
          /\ UNCHANGED text_length
    /\ UNCHANGED <<received_text, hidden_states, input_ids, shape_buf,
                   recv_buffer, generated_sentence>>
    /\ StageUnchanged

\* worker.py:76-77 text_length = zeros(1); dist.recv(text_length, world_size - 1)
Rank0RecvLength(r) ==
    /\ r = 0
    /\ pc[r] = "recv_len"
    /\ \/ /\ CanRecv(r, Last, <<1>>)
          /\ text_length' = [text_length EXCEPT
                               ![r] = Received(r, Last, <<1>>).data[1]]
          /\ Consume(r, Last, "len")
          /\ Goto(r, "recv_text")
       \/ /\ RecvFail(r, Last, "len")
          /\ UNCHANGED text_length
    /\ UNCHANGED <<received_text, hidden_states, input_ids, shape_buf,
                   recv_buffer, generated_sentence>>
    /\ StageUnchanged

\* worker.py:80-81 recv_buffer = zeros(text_length); dist.recv(recv_buffer, ..)
Rank0RecvText(r) ==
    /\ r = 0
    /\ pc[r] = "recv_text"
    /\ \/ /\ CanRecv(r, Last, <<text_length[r]>>)
          /\ recv_buffer' = [recv_buffer EXCEPT
                               ![r] = Received(r, Last, <<text_length[r]>>)]
          /\ Consume(r, Last, "text")
          /\ Goto(r, "decode")
       \/ /\ RecvFail(r, Last, "text")
          /\ UNCHANGED recv_buffer
    /\ UNCHANGED <<received_text, hidden_states, input_ids, shape_buf,
                   text_length, generated_sentence>>
    /\ StageUnchanged

\* worker.py:84 received_text = recv_buffer...tobytes().decode("utf-8")
Rank0Decode(r) ==
    /\ r = 0
    /\ pc[r] = "decode"
    /\ LET d == Utf8Decode(recv_buffer[r].data)
       IN IF d.ok
          THEN /\ received_text' = [received_text EXCEPT ![r] = Str(d.text)]
               /\ Goto(r, "finally")
               /\ UNCHANGED failure
          ELSE /\ Raise(r, "UnicodeDecodeError")
               /\ UNCHANGED received_text
    /\ UNCHANGED <<locals, chan, posted, log>>
    /\ StageUnchanged

(* ------------------------ ranks > 0 (receiving) ----------------------- *)
\* worker.py:90-92 hidden_states_shape = zeros(3); dist.recv(.., rank - 1)
RecvHiddenShape(r) ==
    /\ r > 0
    /\ pc[r] = "recv_hs_shape"
    /\ \/ /\ CanRecv(r, r - 1, <<3>>)
          /\ shape_buf' = [shape_buf EXCEPT ![r] = Received(r, r - 1, <<3>>)]
          /\ Consume(r, r - 1, "hs_shape")
          /\ Goto(r, "recv_hs")
       \/ /\ RecvFail(r, r - 1, "hs_shape")
          /\ UNCHANGED shape_buf
    /\ UNCHANGED <<received_text, hidden_states, input_ids, text_length,
                   recv_buffer, generated_sentence>>
    /\ StageUnchanged

\* worker.py:94-95 recv_hidden_states = zeros(shape); dist.recv(.., rank - 1)
RecvHidden(r) ==
    /\ r > 0
    /\ pc[r] = "recv_hs"
    /\ \/ /\ CanRecv(r, r - 1, shape_buf[r].data)
          /\ hidden_states' = [hidden_states EXCEPT
                                 ![r] = Received(r, r - 1, shape_buf[r].data)]
          /\ Consume(r, r - 1, "hs")
          /\ Goto(r, "recv_ids_shape")
       \/ /\ RecvFail(r, r - 1, "hs")
          /\ UNCHANGED hidden_states
    /\ UNCHANGED <<received_text, input_ids, shape_buf, text_length,
                   recv_buffer, generated_sentence>>
    /\ StageUnchanged

\* worker.py:99-101 input_ids_shape = zeros(2); dist.recv(.., rank - 1)
RecvIdsShape(r) ==
    /\ r > 0
    /\ pc[r] = "recv_ids_shape"
    /\ \/ /\ CanRecv(r, r - 1, <<2>>)
          /\ shape_buf' = [shape_buf EXCEPT ![r] = Received(r, r - 1, <<2>>)]
          /\ Consume(r, r - 1, "ids_shape")
          /\ Goto(r, "recv_ids")
       \/ /\ RecvFail(r, r - 1, "ids_shape")
          /\ UNCHANGED shape_buf
    /\ UNCHANGED <<received_text, hidden_states, input_ids, text_length,
                   recv_buffer, generated_sentence>>
    /\ StageUnchanged

\* Variant: a failed receive is ignored and the rank goes on.
RecvIdsSwallowsError(r) ==
    /\ r > 0
    /\ pc[r] = "recv_ids"
    /\ \/ /\ CanRecv(r, r - 1, shape_buf[r].data)
          /\ input_ids' = [input_ids EXCEPT
                             ![r] = Received(r, r - 1, shape_buf[r].data)]
          /\ Consume(r, r - 1, "ids")
          /\ Goto(r, "compute")
       \/ /\ Goto(r, "compute")
          /\ Logged(r, "recv", r - 1, "ids")
          /\ UNCHANGED <<input_ids, chan, posted, failure>>
    /\ UNCHANGED <<received_text, hidden_states, shape_buf, text_length,
                   recv_buffer, generated_sentence>>
    /\ StageUnchanged

\* worker.py:102-103 recv_input_ids = zeros(shape); dist.recv(.., rank - 1)
RecvIds(r) ==
    /\ r > 0
    /\ pc[r] = "recv_ids"
    /\ \/ /\ CanRecv(r, r - 1, shape_buf[r].data)
          /\ input_ids' = [input_ids EXCEPT
                             ![r] = Received(r, r - 1, shape_buf[r].data)]
          /\ Consume(r, r - 1, "ids")
          /\ Goto(r, "compute")
       \/ /\ RecvFail(r, r - 1, "ids")
          /\ UNCHANGED input_ids
    /\ UNCHANGED <<received_text, hidden_states, shape_buf, text_length,
                   recv_buffer, generated_sentence>>
    /\ StageUnchanged

\* worker.py:106-109 apply the owned layers, then branch on the last rank
LayerCompute(r) ==
    /\ r > 0
    /\ pc[r] = "compute"
    /\ \/ /\ hidden_states' = [hidden_states EXCEPT
                ![r] = ApplyLayers(@, layer_range[r].start, layer_range[r].end)]
          /\ Goto(r, IF r = world_size - 1 THEN "generate" ELSE "fwd_hs_shape")
          /\ Logged(r, "compute", r, "layers")
          /\ UNCHANGED <<failure, chan, posted>>
       \/ /\ ComputeFail(r)
          /\ UNCHANGED hidden_states
    /\ UNCHANGED <<received_text, input_ids, shape_buf, text_length,
                   recv_buffer, generated_sentence>>
    /\ StageUnchanged


(* ----------------------------- last rank ------------------------------ *)
\* worker.py:124-126 encoded_text of the last rank
EncodedText(r) ==
    LET bytes == Utf8Encode(generated_sentence[r])
    IN [shape |-> <<Len(bytes)>>, data |-> bytes]

\* Variant: the length sent is the number of characters.
CharLength(sentence) == Len(sentence)

\* worker.py:125-129 len(encoded_text), the number of UTF-8 bytes
EncodedLength(sentence) == Len(Utf8Encode(sentence))

\* The first n elements of a sequence (all of it when it is shorter).
Take(seq, n) ==
    SubSeq(seq, 1, IF n < 0 THEN 0 ELSE IF n < Len(seq) THEN n ELSE Len(seq))

\* Variant: the generation continues from the tokens the activations were
\* computed from.
GenerateInputFromActivations(hs, ids) ==
    [input_ids |-> [shape |-> <<1, Len(hs.data.ids)>>, data |-> hs.data.ids],
     attention_mask |-> [shape |-> <<1, Len(hs.data.ids)>>,
                         data |-> [i \in 1..Len(hs.data.ids) |-> 1]]]

\* worker.py:110-113 what the final rank hands to model.generate when it
\* holds the activations hs and the token ids ids: the token ids and a
\* mask of ones of their shape.
GenerateInputOf(hs, ids) ==
    [input_ids |-> ids,
     attention_mask |-> [shape |-> ids.shape,
                         data |-> [i \in 1..Len(ids.data) |-> 1]]]

GenerateInput(r) == GenerateInputOf(hidden_states[r], input_ids[r])

\* Variant: the limit is one token too long.
GenerateKwargsLonger(r) ==
    [max_length |-> Len(input_ids[r].data) + 301,
     do_sample |-> TRUE,
     top_k |-> 50,
     temperature |-> 10]

\* worker.py:111-118 the keyword arguments of model.generate; temperature
\* is not passed and keeps its default 1.0 (counted in tenths).
GenerateKwargs(r) ==
    [max_length |-> Len(input_ids[r].data) + 300,
     do_sample |-> TRUE,
     top_k |-> 50,
     temperature |-> 10]

\* worker.py:110-129 model.generate on the received token ids,
\* tokenizer.decode, utf-8 encoding and its length
Generate(r) ==
    /\ r > 0
    /\ pc[r] = "generate"
    /\ \/ \E cont \in Continuations :
            LET kwargs == GenerateKwargs(r)
                output_ids == GenerateInput(r).input_ids.data \o
                    Take(cont, kwargs.max_length - Len(input_ids[r].data))
                sentence == Detokenize(output_ids)
            IN /\ generated_sentence' = [generated_sentence EXCEPT ![r] = sentence]
               /\ text_length' = [text_length EXCEPT
                                    ![r] = EncodedLength(sentence)]
               /\ Goto(r, "send_len")
               /\ Logged(r, "compute", r, "generate")
               /\ UNCHANGED <<failure, chan, posted>>
       \/ /\ ComputeFail(r)
          /\ UNCHANGED <<generated_sentence, text_length>>
    /\ UNCHANGED <<received_text, hidden_states, input_ids, shape_buf,
                   recv_buffer>>
    /\ StageUnchanged

\* worker.py:129-130 dist.send(text_length, 0)
SendLength(r) ==
    /\ r > 0
    /\ pc[r] = "send_len"
    /\ DistSend(r, 0, [shape |-> <<1>>, data |-> <<text_length[r]>>], "len",
                "send_text")
    /\ UNCHANGED <<received_text, locals>>
    /\ StageUnchanged

\* Variant: the text goes back along the chain, to the predecessor.
SendTextToPredecessor(r) ==
    /\ r > 0
    /\ pc[r] = "send_text"
    /\ DistSend(r, r - 1, EncodedText(r), "text", "finally")
    /\ UNCHANGED <<received_text, locals>>
    /\ StageUnchanged

\* worker.py:133 dist.send(encoded_text, 0)
SendText(r) ==
    /\ r > 0
    /\ pc[r] = "send_text"
    /\ DistSend(r, 0, EncodedText(r), "text", "finally")
    /\ UNCHANGED <<received_text, locals>>
    /\ StageUnchanged

(* --------------------------- interior ranks --------------------------- *)
\* worker.py:138-140 dist.send(hidden_states_shape, rank + 1)
FwdSendHiddenShape(r) ==
    /\ r > 0
    /\ pc[r] = "fwd_hs_shape"
    /\ DistSend(r, r + 1, ShapeTensor(hidden_states[r].shape), "hs_shape",
                "fwd_hs")
    /\ UNCHANGED <<received_text, locals>>
    /\ StageUnchanged

\* worker.py:141 dist.send(recv_hidden_states, rank + 1)
FwdSendHidden(r) ==
    /\ r > 0
    /\ pc[r] = "fwd_hs"
    /\ DistSend(r, r + 1, hidden_states[r], "hs", "fwd_ids_shape")
    /\ UNCHANGED <<received_text, locals>>
    /\ StageUnchanged

\* worker.py:143-145 dist.send(input_ids_shape, rank + 1)
FwdSendIdsShape(r) ==
    /\ r > 0
    /\ pc[r] = "fwd_ids_shape"
    /\ DistSend(r, r + 1, ShapeTensor(input_ids[r].shape), "ids_shape",
                "fwd_ids")
    /\ UNCHANGED <<received_text, locals>>
    /\ StageUnchanged

\* Variant: the interior rank forwards the token ids in reverse order.
FwdSendIdsReversed(r) ==
    /\ r > 0
    /\ pc[r] = "fwd_ids"
    /\ DistSend(r, r + 1,
                [input_ids[r] EXCEPT
                   !.data = [i \in 1..Len(@) |-> @[Len(@) + 1 - i]]],
                "ids", "finally")
    /\ UNCHANGED <<received_text, locals>>
    /\ StageUnchanged

\* worker.py:146 dist.send(recv_input_ids, rank + 1)
FwdSendIds(r) ==
    /\ r > 0
    /\ pc[r] = "fwd_ids"
    /\ DistSend(r, r + 1, input_ids[r], "ids", "finally")
    /\ UNCHANGED <<received_text, locals>>
    /\ StageUnchanged

(* ------------------------- the specifications ------------------------- *)
Next ==
    \/ \E r \in Procs : InitDistributed(r)
    \/ \E r \in Procs : LoadModel(r)
    \/ \E r \in Procs : PartitionLayers(r)
    \/ \E r \in Procs : Rank0Compute(r)
    \/ \E r \in Procs : Rank0SendHiddenShape(r)
    \/ \E r \in Procs : Rank0SendHidden(r)
    \/ \E r \in Procs : Rank0SendIdsShape(r)
    \/ \E r \in Procs : Rank0SendIds(r)
    \/ \E r \in Procs : Rank0RecvLength(r)
    \/ \E r \in Procs : Rank0RecvText(r)
    \/ \E r \in Procs : Rank0Decode(r)
    \/ \E r \in Procs : RecvHiddenShape(r)
    \/ \E r \in Procs : RecvHidden(r)
    \/ \E r \in Procs : RecvIdsShape(r)
    \/ \E r \in Procs : RecvIds(r)
    \/ \E r \in Procs : LayerCompute(r)
    \/ \E r \in Procs : Generate(r)
    \/ \E r \in Procs : SendLength(r)
    \/ \E r \in Procs : SendText(r)
    \/ \E r \in Procs : FwdSendHiddenShape(r)
    \/ \E r \in Procs : FwdSendHidden(r)
    \/ \E r \in Procs : FwdSendIdsShape(r)
    \/ \E r \in Procs : FwdSendIds(r)
    \/ \E r \in Procs : Finally(r)

Spec == Init /\ [][Next]_vars

\* The layer split alone, for every (total_layers, world_size): each rank
\* stands at worker.py:34 and executes the split.
PartInit ==
    /\ world_size \in 0..PartMaxWorld
    /\ total_layers \in 0..PartMaxLayers
    /\ input_data = <<104>>
    /\ pc = [r \in Procs |-> "partition"]
    /\ InitRun

PartNext == \E r \in Procs : PartitionLayers(r)

PartSpec == PartInit /\ [][PartNext]_vars


(* ------------------------ the caller of run --------------------------- *)
\* service.py:85-96 Service.execute returns what worker.run returned; an
\* exception leaving run becomes an HTTP 500.
ExecuteResponse(r) ==
    IF outcome[r].kind = "returned"
    THEN [status |-> 200, body |-> outcome[r].value]
    ELSE [status |-> 500, body |-> None]

(* ------------------------- derived quantities ------------------------- *)
Assigned(r) == layer_range[r] # NoRange
AllAssigned == \A r \in Procs : Assigned(r)
Ended(r) == pc[r] = "done"
Failed(r) == failure[r] # NoFailure
FailureFree == \A r \in Procs : ~Failed(r)

\* number of dist.destroy_process_group() calls of rank r
DestroyCalls(r) ==
    Cardinality({i \in DOMAIN log[r] : log[r][i].op = "destroy"})

\* rank r called dist.send or dist.recv
UsedTransport(r) ==
    \E i \in DOMAIN log[r] : log[r][i].op \in {"send", "recv"}

(* ------------------------------ claims -------------------------------- *)

\* C1: for total_layers >= world_size >= 1 the ranges computed by the ranks
\* are non-empty, contiguous (end of r = start of r+1), pairwise disjoint,
\* start at 0, end at total_layers and cover every layer exactly once.
C1_PartitionCovers ==
    (total_layers >= world_size /\ world_size >= 1) =>
        /\ \A r \in Procs : Assigned(r) =>
              /\ layer_range[r].start < layer_range[r].end
              /\ layer_range[r].start >= 0
              /\ layer_range[r].end <= total_layers
              /\ r = 0 => layer_range[r].start = 0
              /\ r = Last => layer_range[r].end = total_layers
        /\ \A r \in Procs : (r + 1 \in Procs /\ Assigned(r) /\ Assigned(r + 1)) =>
              layer_range[r].end = layer_range[r + 1].start
        /\ \A r, q \in Procs : (r # q /\ Assigned(r) /\ Assigned(q)) =>
              \/ layer_range[r].end <= layer_range[q].start
              \/ layer_range[q].end <= layer_range[r].start
        /\ AllAssigned =>
              \A i \in 0..(total_layers - 1) :
                 Cardinality({r \in Procs : layer_range[r].start <= i
                                            /\ i < layer_range[r].end}) = 1

C1_Witness ==
    /\ world_size = 3
    /\ total_layers = 10
    /\ AllAssigned

\* C2: start = rank * floor(total_layers / world_size); end = start +
\* floor(total_layers / world_size) except for the last rank, whose end is
\* total_layers (it absorbs total_layers mod world_size); (12, 3) gives
\* [0,4) [4,8) [8,12) and (10, 3) gives [0,3) [3,6) [6,10).
C2_PartitionFormula ==
    LET q == total_layers \div world_size
        m == total_layers % world_size
        Is(r, a, b) == Assigned(r) => layer_range[r] = [start |-> a, end |-> b]
    IN /\ world_size >= 1 =>
            \A r \in Procs : Assigned(r) =>
               /\ layer_range[r].start = r * q
               /\ r < Last => layer_range[r].end - layer_range[r].start = q
               /\ r = Last => /\ layer_range[r].end = total_layers
                              /\ layer_range[r].end - layer_range[r].start = q + m
       /\ (total_layers = 12 /\ world_size = 3) =>
            Is(0, 0, 4) /\ Is(1, 4, 8) /\ Is(2, 8, 12)
       /\ (total_layers = 10 /\ world_size = 3) =>
            Is(0, 0, 3) /\ Is(1, 3, 6) /\ Is(2, 6, 10)

C2_Witness ==
    /\ world_size = 3
    /\ total_layers = 12
    /\ AllAssigned
    /\ layer_range[2] = [start |-> 8, end |-> 12]

\* C3: when world_size = 0 or total_layers < world_size the partitioning
\* is rejected, so no rank is ever given a layer range.
C3_DegenerateRejected ==
    (world_size = 0 \/ total_layers < world_size) =>
        \A r \in Procs : ~Assigned(r)

\* C4: in a failure-free run with world_size >= 2 rank 0 returns exactly
\* the sentence the last rank generated and detokenized, which is the
\* prompt followed by the text of the generated tokens.
C4_Rank0ReturnsGeneratedText ==
    (world_size >= 2 /\ FailureFree /\ Ended(0)) =>
        /\ outcome[0] = Returned(Str(generated_sentence[Last]))
        /\ \E cont \in Continuations :
              outcome[0].value.text = input_data \o Detokenize(cont)

C4_Witness ==
    /\ world_size = 2
    /\ FailureFree
    /\ Ended(0)
    /\ input_data = <<104>>
    /\ outcome[0] = Returned(Str(<<104, 8364>>))

\* C5: only rank 0 returns text; the call of every rank r > 0 returns None
\* on every exit path.
C5_OtherRanksReturnNone ==
    \A r \in Procs : (r > 0 /\ Ended(r)) => outcome[r] = Returned(None)

\* C6: on every exit path of every rank destroy_process_group is called
\* exactly once: never skipped, never called twice.
C6_DestroyExactlyOnce ==
    \A r \in Procs :
        /\ DestroyCalls(r) <= 1
        /\ Ended(r) => DestroyCalls(r) = 1

C6_Witness ==
    \E r, q \in Procs :
        /\ Ended(r) /\ failure[r].site = "start"
        /\ Ended(q) /\ failure[q].error = "TransportError"
        /\ DestroyCalls(r) = 1 /\ DestroyCalls(q) = 1

\* C7: with world_size = 1 rank 0 never calls send or recv, and its call
\* returns generated text.
C7_SingleRankLocal ==
    world_size = 1 =>
        /\ ~UsedTransport(0)
        /\ (Ended(0) /\ failure[0].error \notin {"InitError", "ComputeError"})
              => outcome[0].value.tag = "str"

\* C8: in a 2-rank run in which rank 1's send of the result fails with a
\* transport error (and nothing else is injected at rank 0 before it waits
\* for the result), once both ranks are done rank 0's run has returned an
\* error and destroy was called exactly once on each rank.
C8_ResultSendFailure ==
    ( /\ world_size = 2
      /\ failure[1].error = "TransportError"
      /\ failure[1].site \in {"send_len", "send_text"}
      /\ failure[0].site \in {"none", "recv_len", "recv_text"}
      /\ Ended(0) /\ Ended(1) ) =>
        /\ outcome[0].kind = "raised"
        /\ DestroyCalls(0) = 1
        /\ DestroyCalls(1) = 1

\* C9: rank 0's run ends either with the decoded text or with an error the
\* caller can tell from success; a failure during the run is never turned
\* into an empty successful return (stated for the multi-rank run).
C9_Rank0TextOrError ==
    (world_size >= 2 /\ Ended(0)) =>
        /\ outcome[0].kind = "returned" => outcome[0].value.tag = "str"
        /\ Failed(0) => ExecuteResponse(0).status # 200

\* C10: a transport or computation failure at any rank moves it straight to
\* teardown and Done: it is in no send, recv or compute position any more,
\* destroy runs, and its outcome is an error.
C10_FailureGoesToDone ==
    \A r \in Procs :
        failure[r].error \in {"TransportError", "ComputeError"} =>
            /\ pc[r] \in {"finally", "done"}
            /\ ~posted[r]
            /\ Ended(r) => /\ DestroyCalls(r) = 1
                           /\ outcome[r].kind = "raised"


(* --------------------------- the call logs ---------------------------- *)
\* the shape (or length) message that frames a payload, and back
ShapeOf(what) ==
    CASE what = "hs" -> "hs_shape" [] what = "ids" -> "ids_shape"
      [] what = "text" -> "len" [] OTHER -> "none"
PayloadOf(what) ==
    CASE what = "hs_shape" -> "hs" [] what = "ids_shape" -> "ids"
      [] what = "len" -> "text" [] OTHER -> "none"
IsTransfer(e) == e.op \in {"send", "recv"}

\* number of dist.send calls of rank s to rank d / dist.recv calls of
\* rank d from rank s that were made (completed or raised)
SendCount(s, d) ==
    Cardinality({i \in DOMAIN log[s] : log[s][i].op = "send" /\ log[s][i].peer = d})
RecvCount(d, s) ==
    Cardinality({i \in DOMAIN log[d] : log[d][i].op = "recv" /\ log[d][i].peer = s})
Called(r, op, peer, what) ==
    \E i \in DOMAIN log[r] :
        log[r][i].op = op /\ log[r][i].peer = peer /\ log[r][i].what = what

\* C11: every transfer is two messages in strict order, shape then payload,
\* on the sending and on the receiving side (a payload call directly
\* follows the call for its shape, a shape call is directly followed by the
\* call for its payload unless it raised), and the buffer a payload was
\* received into has exactly the shape the sender declared.
C11_ShapeThenPayload ==
    /\ \A r \in Procs : \A i \in DOMAIN log[r] :
          LET e == log[r][i]
          IN IsTransfer(e) =>
               /\ PayloadOf(e.what) # "none" \/ ShapeOf(e.what) # "none"
               /\ ShapeOf(e.what) # "none" =>
                     /\ i > 1
                     /\ log[r][i - 1] = [e EXCEPT !.what = ShapeOf(e.what)]
               /\ (PayloadOf(e.what) # "none" /\ i < Len(log[r])) =>
                     \/ log[r][i + 1] = [e EXCEPT !.what = PayloadOf(e.what)]
                     \/ log[r][i + 1].op = "destroy"
    /\ \A r \in Procs : r > 0 =>
          /\ hidden_states[r] # NoTensor =>
                hidden_states[r].shape = hidden_states[r - 1].shape
          /\ input_ids[r] # NoTensor =>
                input_ids[r].shape = input_ids[r - 1].shape
    /\ recv_buffer[0] # NoTensor =>
          recv_buffer[0].shape = <<text_length[Last]>>

C11_Witness ==
    /\ world_size = 3
    /\ hidden_states[2].shape = <<1, 2, HiddenDim>>
    /\ input_ids[2].shape = <<1, 2>>
    /\ recv_buffer[0] # NoTensor
    /\ Called(2, "recv", 1, "ids")


(* ------------------ one forward link, arbitrary tensors --------------- *)
\* Payloads of n elements (element values are taken from 0..2).
Payloads(n) == { [i \in 1..n |-> (i + k) % 3] : k \in 0..2 }

\* Activation tensors (3 dimensions) and token-id tensors (2 dimensions)
\* of every shape up to MaxDim per dimension.
Tensors3 ==
    UNION { { [shape |-> <<a, b, c>>, data |-> p] : p \in Payloads(a * b * c) } :
            a \in 1..MaxDim, b \in 1..MaxDim, c \in 1..MaxDim }
Tensors2 ==
    UNION { { [shape |-> <<a, b>>, data |-> p] : p \in Payloads(a * b) } :
            a \in 1..MaxDim, b \in 1..MaxDim }

\* Rank 0 stands at worker.py:64 with some hidden_states and input_ids,
\* rank 1 at worker.py:90; both have joined the group.
XferInit ==
    /\ ServiceInit
    /\ Elsewhere
    /\ generation_config = NoConfig
    /\ world_size = 2
    /\ total_layers = 2
    /\ input_data = <<104>>
    /\ pc = (0 :> "send_hs_shape" @@ 1 :> "recv_hs_shape")
    /\ pg = [r \in Procs |-> "initialized"]
    /\ layer_range = [r \in Procs |-> Partition(total_layers, world_size, r)]
    /\ received_text = [r \in Procs |-> None]
    /\ \E h \in Tensors3 : hidden_states = (0 :> h @@ 1 :> NoTensor)
    /\ \E t \in Tensors2 : input_ids = (0 :> t @@ 1 :> NoTensor)
    /\ shape_buf = [r \in Procs |-> NoTensor]
    /\ text_length = [r \in Procs |-> 0]
    /\ recv_buffer = [r \in Procs |-> NoTensor]
    /\ generated_sentence = [r \in Procs |-> <<>>]
    /\ chan = [l \in Links |-> <<>>]
    /\ posted = [r \in Procs |-> FALSE]
    /\ failure = [r \in Procs |-> NoFailure]
    /\ outcome = [r \in Procs |-> Running]
    /\ log = [r \in Procs |-> <<>>]

XferNext ==
    \/ \E r \in Procs : Rank0SendHiddenShape(r)
    \/ \E r \in Procs : Rank0SendHidden(r)
    \/ \E r \in Procs : Rank0SendIdsShape(r)
    \/ \E r \in Procs : Rank0SendIds(r)
    \/ \E r \in Procs : RecvHiddenShape(r)
    \/ \E r \in Procs : RecvHidden(r)
    \/ \E r \in Procs : RecvIdsShape(r)
    \/ \E r \in Procs : RecvIds(r)
    \/ \E r \in Procs : Finally(r)

XferSpec == XferInit /\ [][XferNext]_vars

\* C12: shape-framed transfer is a round trip: the tensor the receiver
\* holds after the (shape, payload) receive is exactly the tensor the
\* sender sent, shape and payload, for activations and for token ids.
C12_TransferRoundTrip ==
    \A r \in Procs : r > 0 =>
        /\ Called(r, "recv", r - 1, "hs") =>
              \/ hidden_states[r] = hidden_states[r - 1]
              \/ failure[r].site = "recv_hs"
        /\ Called(r, "recv", r - 1, "ids") =>
              \/ input_ids[r] = input_ids[r - 1]
              \/ failure[r].site = "recv_ids"

C12_Witness ==
    /\ hidden_states[1].shape = <<1, 2, 2>>
    /\ hidden_states[1] = hidden_states[0]
    /\ input_ids[1].shape = <<2, 1>>
    /\ input_ids[1] = input_ids[0]
    /\ pc[1] = "compute"


(* ---------------------- the result link, any text --------------------- *)
\* Code points of 1, 2, 3 and 4 UTF-8 bytes: h, e-acute, euro sign, an emoji.
Alphabet == {104, 233, 8364, 128512}

RECURSIVE TextsOfLen(_)
TextsOfLen(n) ==
    IF n = 0 THEN { <<>> }
    ELSE { Append(t, c) : t \in TextsOfLen(n - 1), c \in Alphabet }

\* Every text of at most MaxTextLen characters, the empty one included.
Texts == UNION { TextsOfLen(n) : n \in 0..MaxTextLen }

\* Number of UTF-8 bytes of a code point / of a text, from the ranges of
\* the encoding.
BytesOfCodePoint(c) ==
    IF c < 128 THEN 1 ELSE IF c < 2048 THEN 2 ELSE IF c < 65536 THEN 3 ELSE 4

RECURSIVE ByteCount(_)
ByteCount(text) ==
    IF text = <<>> THEN 0
    ELSE BytesOfCodePoint(Head(text)) + ByteCount(Tail(text))

\* The last rank (1 of 2) stands at worker.py:110 holding the token ids of
\* some text, rank 0 at worker.py:76 waiting for the result.
TextInit ==
    /\ ServiceInit
    /\ Elsewhere
    /\ generation_config = NoConfig
    /\ world_size = 2
    /\ total_layers = 2
    /\ input_data \in Prompts
    /\ pc = (0 :> "recv_len" @@ 1 :> "generate")
    /\ pg = [r \in Procs |-> "initialized"]
    /\ layer_range = [r \in Procs |-> Partition(total_layers, world_size, r)]
    /\ received_text = [r \in Procs |-> None]
    /\ hidden_states = [r \in Procs |-> NoTensor]
    /\ \E t \in Texts :
          input_ids = (0 :> NoTensor @@
                       1 :> [shape |-> <<1, Len(t)>>, data |-> Tokenize(t)])
    /\ shape_buf = [r \in Procs |-> NoTensor]
    /\ text_length = [r \in Procs |-> 0]
    /\ recv_buffer = [r \in Procs |-> NoTensor]
    /\ generated_sentence = [r \in Procs |-> <<>>]
    /\ chan = [l \in Links |-> <<>>]
    /\ posted = [r \in Procs |-> FALSE]
    /\ failure = [r \in Procs |-> NoFailure]
    /\ outcome = [r \in Procs |-> Running]
    /\ log = [r \in Procs |-> <<>>]

TextNext ==
    \/ \E r \in Procs : Generate(r)
    \/ \E r \in Procs : SendLength(r)
    \/ \E r \in Procs : SendText(r)
    \/ \E r \in Procs : Rank0RecvLength(r)
    \/ \E r \in Procs : Rank0RecvText(r)
    \/ \E r \in Procs : Rank0Decode(r)
    \/ \E r \in Procs : Finally(r)

TextSpec == TextInit /\ [][TextNext]_vars

\* C13: text framing is a round trip: the length the last rank sends and
\* rank 0 receives is the number of UTF-8 bytes of the text (not of its
\* characters), decoding the received bytes never fails and yields the
\* text the last rank encoded; empty and multi-byte texts included.
C13_TextRoundTrip ==
    /\ Called(Last, "compute", Last, "generate") =>
          text_length[Last] = ByteCount(generated_sentence[Last])
    /\ (Called(0, "recv", Last, "len") /\ failure[0].site # "recv_len") =>
          text_length[0] = ByteCount(generated_sentence[Last])
    /\ (Called(0, "recv", Last, "text") /\ failure[0].site # "recv_text") =>
          /\ Len(recv_buffer[0].data) = ByteCount(generated_sentence[Last])
          /\ Utf8Decode(recv_buffer[0].data).ok
    /\ failure[0].site # "decode"
    /\ received_text[0].tag = "str" =>
          received_text[0] = Str(generated_sentence[Last])

\* A text with a 1-, 2-, 3- and 4-byte character has made the trip...
C13_Witness ==
    /\ received_text[0] = Str(<<128512, 233, 8364>>)
    /\ text_length[0] = 9
    /\ outcome[0] = Returned(Str(generated_sentence[1]))

\* ... and so has the empty text.
C13_WitnessEmpty ==
    /\ received_text[0] = Str(<<>>)
    /\ text_length[0] = 0
    /\ Called(0, "recv", 1, "text")


(* --------------------- a rank against a test double ------------------- *)
\* Bytes of "h", the two bytes of e-acute, and a byte no UTF-8 text holds.
ByteAlphabet == {104, 195, 169, 255}

RECURSIVE BytesOfLen(_)
BytesOfLen(n) ==
    IF n = 0 THEN { <<>> }
    ELSE { Append(b, c) : b \in BytesOfLen(n - 1), c \in ByteAlphabet }

ByteStrings == UNION { BytesOfLen(n) : n \in 0..MaxBytes }

Shapes3 == { <<a, b, c>> : a \in 1..MaxDim, b \in 1..MaxDim, c \in 1..MaxDim }

\* The peer of the rank under test is a test double that has already put
\* its framed messages on the link and takes no further step.
MockCommon ==
    /\ ServiceInit
    /\ Elsewhere
    /\ generation_config = NoConfig
    /\ world_size = 2
    /\ total_layers = 2
    /\ input_data = <<104>>
    /\ pg = [r \in Procs |-> "initialized"]
    /\ layer_range = [r \in Procs |-> Partition(total_layers, world_size, r)]
    /\ received_text = [r \in Procs |-> None]
    /\ hidden_states = [r \in Procs |-> NoTensor]
    /\ input_ids = [r \in Procs |-> NoTensor]
    /\ shape_buf = [r \in Procs |-> NoTensor]
    /\ text_length = [r \in Procs |-> 0]
    /\ recv_buffer = [r \in Procs |-> NoTensor]
    /\ generated_sentence = [r \in Procs |-> <<>>]
    /\ posted = [r \in Procs |-> FALSE]
    /\ failure = [r \in Procs |-> NoFailure]
    /\ outcome = [r \in Procs |-> Running]
    /\ log = [r \in Procs |-> <<>>]

\* Either rank 0 waits for the result (worker.py:76) and the double has
\* sent a length and some bytes, or rank 1 waits for the activations
\* (worker.py:90) and the double has sent a shape, a payload and the ids.
MockInit ==
    /\ MockCommon
    /\ \/ /\ pc = (0 :> "recv_len" @@ 1 :> "mock")
          /\ \E n \in 0..MaxBytes, b \in ByteStrings :
                chan = [l \in Links |->
                          IF l = <<1, 0>>
                          THEN << [shape |-> <<1>>, data |-> <<n>>],
                                  [shape |-> <<Len(b)>>, data |-> b] >>
                          ELSE <<>>]
       \/ /\ pc = (0 :> "mock" @@ 1 :> "recv_hs_shape")
          /\ \E s \in Shapes3, h \in Tensors3 :
                chan = [l \in Links |->
                          IF l = <<0, 1>>
                          THEN << ShapeTensor(s), h, ShapeTensor(<<1, 1>>),
                                  [shape |-> <<1, 1>>, data |-> <<105>>] >>
                          ELSE <<>>]

MockNext ==
    \/ \E r \in Procs : Rank0RecvLength(r)
    \/ \E r \in Procs : Rank0RecvText(r)
    \/ \E r \in Procs : Rank0Decode(r)
    \/ \E r \in Procs : RecvHiddenShape(r)
    \/ \E r \in Procs : RecvHidden(r)
    \/ \E r \in Procs : RecvIdsShape(r)
    \/ \E r \in Procs : RecvIds(r)
    \/ \E r \in Procs : Finally(r)

MockSpec == MockInit /\ [][MockNext]_vars

\* C14: when the bytes rank 0 received are not valid UTF-8, its run ends
\* with the decoding error, which the caller gets as a failure, and the
\* process group has been destroyed.
C14_DecodeErrorReported ==
    (Ended(0) /\ failure[0].error = "UnicodeDecodeError") =>
        /\ outcome[0] = Raised("UnicodeDecodeError")
        /\ ExecuteResponse(0).status # 200
        /\ DestroyCalls(0) = 1


\* The rank whose messages rank r receives: the last rank for rank 0
\* (worker.py:77, 81), rank r - 1 otherwise (worker.py:92-103).
Pred(r) == IF r = 0 THEN Last ELSE r - 1

PayloadRecvSites == {"recv_hs", "recv_ids", "recv_text"}

\* The shape the receive buffer at the current site was allocated with.
DeclaredShape(r) ==
    IF pc[r] = "recv_text" THEN <<text_length[r]>> ELSE shape_buf[r].data

\* Rank r stands in a payload recv and the message at the head of its link
\* has a size other than the declared one.
SizeMismatch(r) ==
    /\ pc[r] \in PayloadRecvSites
    /\ chan[<<Pred(r), r>>] # <<>>
    /\ Numel(Head(chan[<<Pred(r), r>>]).shape) # Numel(DeclaredShape(r))

\* C19: a payload whose size disagrees with the declared shape is never
\* accepted: the recv can only end with a TransportError that ends the run.
C19_SizeMismatchRejected ==
    [][\A r \in Procs :
         (SizeMismatch(r) /\ pc'[r] # pc[r]) =>
             /\ pc'[r] = "finally"
             /\ failure'[r] = [site |-> pc[r], error |-> "TransportError"]]_vars


\* Rank r has begun (or is about) to apply its layers, worker.py:106.
BegunLayers(r) ==
    \/ pc[r] = "compute"
    \/ failure[r].site = "compute"
    \/ Called(r, "compute", r, "layers")

\* Rank 0 has begun to decode the result, worker.py:84.
BegunDecode ==
    \/ pc[0] = "decode"
    \/ failure[0].site = "decode"
    \/ received_text[0].tag = "str"

\* Every message of the list has been sent by s and received by d.
Delivered(s, d, whats) ==
    /\ \A w \in whats : Called(s, "send", d, w) /\ Called(d, "recv", s, w)
    /\ SendCount(s, d) = Cardinality(whats)
    /\ RecvCount(d, s) = Cardinality(whats)
    /\ chan[<<s, d>>] = <<>>

\* C15: a rank r > 0 does not begin applying its layers before its four
\* receives from rank r-1 have completed, hence not before rank r-1 has
\* sent and handed over all four messages; rank 0 does not decode or
\* return the text before the last rank's length and text have been sent
\* and received.
C15_HappensBefore ==
    /\ \A r \in Procs : (r > 0 /\ BegunLayers(r)) =>
          /\ Delivered(r - 1, r, {"hs_shape", "hs", "ids_shape", "ids"})
          /\ failure[r].site \notin {"recv_hs_shape", "recv_hs",
                                     "recv_ids_shape", "recv_ids"}
          /\ r > 1 => BegunLayers(r - 1)
    /\ (world_size >= 2 /\ BegunDecode) =>
          /\ Delivered(Last, 0, {"len", "text"})
          /\ BegunLayers(Last)
    /\ \A r \in Procs :
          (outcome[r].kind = "returned" /\ outcome[r].value.tag = "str") =>
              r = 0 /\ BegunDecode

\* A 3-rank run in which ranks 1 and 2 have computed and rank 0 has
\* returned the text.
C15_Witness ==
    /\ world_size = 3
    /\ Called(1, "compute", 1, "layers")
    /\ Called(2, "compute", 2, "layers")
    /\ outcome[0].kind = "returned"
    /\ outcome[0].value.tag = "str"


(* ------------------- failure-free, fairly scheduled runs -------------- *)
\* A step in which no exception is raised inside the try block.
NoFail == failure' = failure

\* Any step of rank r's call of run_worker.
Step(r) ==
    \/ InitDistributed(r)
    \/ LoadModel(r)
    \/ PartitionLayers(r)
    \/ Rank0Compute(r)
    \/ Rank0SendHiddenShape(r)
    \/ Rank0SendHidden(r)
    \/ Rank0SendIdsShape(r)
    \/ Rank0SendIds(r)
    \/ Rank0RecvLength(r)
    \/ Rank0RecvText(r)
    \/ Rank0Decode(r)
    \/ RecvHiddenShape(r)
    \/ RecvHidden(r)
    \/ RecvIdsShape(r)
    \/ RecvIds(r)
    \/ LayerCompute(r)
    \/ Generate(r)
    \/ SendLength(r)
    \/ SendText(r)
    \/ FwdSendHiddenShape(r)
    \/ FwdSendHidden(r)
    \/ FwdSendIdsShape(r)
    \/ FwdSendIds(r)
    \/ Finally(r)

\* Runs of two or more ranks.
LiveInit == Init /\ world_size >= 2

LiveNext ==
    \/ \E r \in Procs : InitDistributed(r) /\ NoFail
    \/ \E r \in Procs : LoadModel(r) /\ NoFail
    \/ \E r \in Procs : PartitionLayers(r) /\ NoFail
    \/ \E r \in Procs : Rank0Compute(r) /\ NoFail
    \/ \E r \in Procs : Rank0SendHiddenShape(r) /\ NoFail
    \/ \E r \in Procs : Rank0SendHidden(r) /\ NoFail
    \/ \E r \in Procs : Rank0SendIdsShape(r) /\ NoFail
    \/ \E r \in Procs : Rank0SendIds(r) /\ NoFail
    \/ \E r \in Procs : Rank0RecvLength(r) /\ NoFail
    \/ \E r \in Procs : Rank0RecvText(r) /\ NoFail
    \/ \E r \in Procs : Rank0Decode(r) /\ NoFail
    \/ \E r \in Procs : RecvHiddenShape(r) /\ NoFail
    \/ \E r \in Procs : RecvHidden(r) /\ NoFail
    \/ \E r \in Procs : RecvIdsShape(r) /\ NoFail
    \/ \E r \in Procs : RecvIds(r) /\ NoFail
    \/ \E r \in Procs : LayerCompute(r) /\ NoFail
    \/ \E r \in Procs : Generate(r) /\ NoFail
    \/ \E r \in Procs : SendLength(r) /\ NoFail
    \/ \E r \in Procs : SendText(r) /\ NoFail
    \/ \E r \in Procs : FwdSendHiddenShape(r) /\ NoFail
    \/ \E r \in Procs : FwdSendHidden(r) /\ NoFail
    \/ \E r \in Procs : FwdSendIdsShape(r) /\ NoFail
    \/ \E r \in Procs : FwdSendIds(r) /\ NoFail
    \/ \E r \in Procs : Finally(r) /\ NoFail

\* Every rank is a process of its own (service.py:19-59 starts one worker
\* per node), so each rank that can take a step eventually takes one.
Fairness == \A r \in 0..(MaxWorld - 1) : WF_vars(r \in Procs /\ Step(r) /\ NoFail)

LiveSpec == LiveInit /\ [][LiveNext]_vars /\ Fairness

\* Every message sent has been received, once, by its destination.
AllMatched ==
    \A s \in Procs : \A d \in Procs :
        /\ SendCount(s, d) = RecvCount(d, s)
        /\ chan[<<s, d>>] = <<>>

\* Every rank is Done, rank 0 has returned the text, all sends matched.
Completed ==
    /\ \A r \in Procs : Ended(r) /\ ~posted[r]
    /\ outcome[0].kind = "returned"
    /\ outcome[0].value.tag = "str"
    /\ AllMatched

\* C16: with two or more ranks, no failure and fair scheduling of every
\* rank, the blocking protocol does not deadlock: eventually every rank is
\* Done, every send has been matched by one recv at its destination, and
\* rank 0 has returned the text.
C16_NoDeadlock == <>Completed

C16_Witness ==
    /\ world_size = 3
    /\ Completed
    /\ SendCount(0, 1) = 4
    /\ SendCount(1, 2) = 4
    /\ SendCount(2, 0) = 2


(* --------------------------- stranded ranks --------------------------- *)
RecvSites == {"recv_hs_shape", "recv_hs", "recv_ids_shape", "recv_ids",
              "recv_len", "recv_text"}

\* Rank r waits in a recv whose sender has failed or ended without having
\* put the message on the link, and will therefore never send it.
Stranded(r) ==
    /\ world_size >= 2
    /\ pc[r] \in RecvSites
    /\ pc[Pred(r)] \in {"finally", "done"}
    /\ chan[<<Pred(r), r>>] = <<>>

InvalidConfig == world_size = 0 \/ total_layers < world_size

\* rank r called init_process_group, dist.send or dist.recv
TransportActivity(r) ==
    \E i \in DOMAIN log[r] : log[r][i].op \in {"init", "send", "recv"}

\* C18: with an invalid configuration the run is aborted before any
\* transport activity: no rank joins the process group, sends or receives.
C18_InvalidConfigNoTransport ==
    InvalidConfig => \A r \in Procs : ~TransportActivity(r)


(* --------------------------- api.py, /predict ------------------------- *)
\* DistilBERT's [CLS] and [SEP] token ids.
ClsToken == 101
SepToken == 102

\* api.py:47 tokenizer(text, return_tensors="pt"): a (1, n + 2) tensor
ApiTokenize(text) ==
    [shape |-> <<1, Len(text) + 2>>,
     data |-> <<ClsToken>> \o Tokenize(text) \o <<SepToken>>]

Label(v) == [tag |-> "label", text |-> <<v>>]

\* The module has been loaded: api.py:16-29 has joined the group as rank 0
\* of 3; a request with some text arrives.  Ranks 1 and 2 are test
\* doubles, rank 2's answer is on its link.
ApiInit ==
    /\ ServiceInit
    /\ Elsewhere
    /\ generation_config = NoConfig
    /\ world_size = 3
    /\ total_layers = 0
    /\ input_data \in Texts
    /\ pc = (0 :> "predict" @@ 1 :> "mock" @@ 2 :> "mock")
    /\ pg = [r \in Procs |-> "initialized"]
    /\ layer_range = [r \in Procs |-> NoRange]
    /\ received_text = [r \in Procs |-> None]
    /\ hidden_states = [r \in Procs |-> NoTensor]
    /\ input_ids = [r \in Procs |-> NoTensor]
    /\ shape_buf = [r \in Procs |-> NoTensor]
    /\ text_length = [r \in Procs |-> 0]
    /\ recv_buffer = [r \in Procs |-> NoTensor]
    /\ generated_sentence = [r \in Procs |-> <<>>]
    /\ \E v \in {0, 1} :
          chan = [l \in Links |->
                    IF l = <<2, 0>> THEN << [shape |-> <<1>>, data |-> <<v>>] >>
                    ELSE <<>>]
    /\ posted = [r \in Procs |-> FALSE]
    /\ failure = [r \in Procs |-> NoFailure]
    /\ outcome = [r \in Procs |-> Running]
    /\ log = [r \in Procs |-> <<>>]

\* api.py:45-47 load the tokenizer, tokenize the text
PredictTokenize(r) ==
    /\ r = 0
    /\ pc[r] = "predict"
    /\ \/ /\ input_ids' = [input_ids EXCEPT ![r] = ApiTokenize(input_data)]
          /\ Goto(r, "api_send")
          /\ UNCHANGED <<failure, chan, posted, log>>
       \/ /\ ComputeFail(r)
          /\ UNCHANGED input_ids
    /\ UNCHANGED <<received_text, hidden_states, shape_buf, text_length,
                   recv_buffer, generated_sentence>>
    /\ StageUnchanged

\* api.py:51 dist.send(inputs["input_ids"], 1): the payload alone
PredictSendInputIds(r) ==
    /\ r = 0
    /\ pc[r] = "api_send"
    /\ DistSend(r, 1, input_ids[r], "ids", "api_recv")
    /\ UNCHANGED <<received_text, locals>>
    /\ StageUnchanged

\* api.py:53-56 result = torch.zeros(1); dist.recv(result, 2)
PredictRecvResult(r) ==
    /\ r = 0
    /\ pc[r] = "api_recv"
    /\ \/ /\ CanRecv(r, 2, <<1>>)
          /\ recv_buffer' = [recv_buffer EXCEPT ![r] = Received(r, 2, <<1>>)]
          /\ Consume(r, 2, "label")
          /\ Goto(r, "api_return")
       \/ /\ RecvFail(r, 2, "label")
          /\ UNCHANGED recv_buffer
    /\ UNCHANGED <<received_text, hidden_states, input_ids, shape_buf,
                   text_length, generated_sentence>>
    /\ StageUnchanged

\* api.py:59 return {"label": result.item(), ...}
PredictReturn(r) ==
    /\ r = 0
    /\ pc[r] = "api_return"
    /\ Goto(r, "done")
    /\ outcome' = [outcome EXCEPT ![r] = Returned(Label(recv_buffer[r].data[1]))]
    /\ UNCHANGED <<params, pg, layer_range, received_text, locals, chan,
                   posted, failure, log>>

\* predict has no handler: an exception raised at api.py:45-56 leaves the
\* coroutine, the process group stays as it is.
PredictRaises(r) ==
    /\ r = 0
    /\ pc[r] = "finally"
    /\ Goto(r, "done")
    /\ outcome' = [outcome EXCEPT ![r] = Raised(failure[r].error)]
    /\ UNCHANGED <<params, pg, layer_range, received_text, locals, chan,
                   posted, failure, log>>

\* A test double takes the next message sent to it.
MockTake(r) ==
    /\ pc[r] = "mock"
    /\ \E s \in Procs \ {r} :
          /\ chan[<<s, r>>] # <<>>
          /\ chan' = [chan EXCEPT ![<<s, r>>] = Tail(@)]
    /\ UNCHANGED <<params, pc, pg, layer_range, received_text, locals, posted,
                   failure, outcome, log>>

ApiNext ==
    \/ \E r \in Procs : PredictTokenize(r)
    \/ \E r \in Procs : PredictSendInputIds(r)
    \/ \E r \in Procs : PredictRecvResult(r)
    \/ \E r \in Procs : PredictReturn(r)
    \/ \E r \in Procs : PredictRaises(r)
    \/ \E r \in Procs : MockTake(r)

ApiSpec == ApiInit /\ [][ApiNext]_vars

\* C20: every transfer site uses the negotiated-shape handshake: a rank's
\* call that sends or receives anything but a shape or a length directly
\* follows its call for the shape or length of that very transfer.
C20_HandshakeEverywhere ==
    \A r \in Procs : \A i \in DOMAIN log[r] :
        LET e == log[r][i]
        IN (IsTransfer(e) /\ PayloadOf(e.what) = "none") =>
              /\ ShapeOf(e.what) # "none"
              /\ i > 1
              /\ log[r][i - 1] = [e EXCEPT !.what = ShapeOf(e.what)]


(* ------------------- the services and the node registry --------------- *)
\* The variables of the pipeline runs modelled above.
pipeline == <<world_size, total_layers, input_data, pc, pg, layer_range,
              received_text, locals, chan, posted, failure, outcome, log,
              generation_config, elsewhere>>

\* Variant: the position counted from 1.
ListIndexFromOne(list, x) ==
    CHOOSE i \in 1..Len(list) : list[i] = x /\ \A j \in 1..(i - 1) : list[j] # x

\* list.index(x): the 0-based position of the first occurrence of x
ListIndex(list, x) ==
    (CHOOSE i \in 1..Len(list) : list[i] = x /\ \A j \in 1..(i - 1) : list[j] # x) - 1

Contains(list, x) == \E i \in 1..Len(list) : list[i] = x

\* form_mock.py:80-86 delete_node: the first entry with that id is removed
Without(list, x) ==
    IF Contains(list, x)
    THEN LET i == ListIndex(list, x) + 1
         IN SubSeq(list, 1, i - 1) \o SubSeq(list, i + 1, Len(list))
    ELSE list

\* A process whose threads can still take steps.
Alive(n) == process[n] \in {"serving", "interrupted"}

\* Requests that have been received, over all nodes.
Arrived == {nk \in Nodes \X Requests : request[nk[1]][nk[2]].pc # "idle"}

SetRequest(n, k, r) == request' = [request EXCEPT ![n][k] = r]

\* service.py:98-133 Service(): register with the registry (POST /nodes),
\* derive the port from the rank and serve. The registry hands out fresh
\* ids and the processes are alike, so they are numbered in the order in
\* which they start and the n-th gets the id n.
Initialize(n) ==
    /\ process[n] = "starting"
    /\ \A m \in Nodes : m < n => process[m] # "starting"
    /\ \/ /\ nodes_list' = Append(nodes_list, n)
          /\ node_id' = [node_id EXCEPT ![n] = n]
          /\ process' = [process EXCEPT ![n] = "serving"]
       \/ /\ nodes_list' = Append(nodes_list, n)
          /\ node_id' = [node_id EXCEPT ![n] = n]
          /\ process' = [process EXCEPT ![n] = "exited"]
       \/ /\ process' = [process EXCEPT ![n] = "exited"]
          /\ UNCHANGED <<nodes_list, node_id>>
    /\ UNCHANGED <<group, request, pipeline>>

\* form_mock.py:80-86 DELETE /nodes/{id}, called by anyone
DeleteNode(id) ==
    /\ Contains(nodes_list, id)
    /\ nodes_list' = Without(nodes_list, id)
    /\ UNCHANGED <<node_id, process, group, request, pipeline>>

\* service.py:85-92 an /execute request arrives and derives (rank,
\* world_size) from the registry list; .index raises when the node's id is
\* not listed, and a failed GET makes the unpacking of None raise.
ExecuteEnter(n, k) ==
    /\ process[n] = "serving"
    /\ request[n][k].pc = "idle"
    /\ \A j \in Requests : j < k => request[n][j].pc # "idle"
    /\ Cardinality(Arrived) < MaxRequests
    /\ \/ /\ Contains(nodes_list, node_id[n])
          /\ SetRequest(n, k, [pc |-> "init",
                               rank |-> ListIndex(nodes_list, node_id[n]),
                               world_size |-> Len(nodes_list),
                               node_ids |-> nodes_list,
                               error |-> "none"])
       \/ /\ ~Contains(nodes_list, node_id[n])
          /\ SetRequest(n, k, [NoRequest EXCEPT !.pc = "failed",
                                                !.error = "ValueError"])
       \/ SetRequest(n, k, [NoRequest EXCEPT !.pc = "failed",
                                             !.error = "TypeError"])
    /\ UNCHANGED <<nodes_list, node_id, process, group, pipeline>>

\* gpt2_worker.py:15-115 init_process_group and, when it succeeds, the
\* pipeline steps of this rank: the default group is one per process and
\* cannot be initialized twice; the pipeline steps touch nothing the
\* requests of a node share, and whether they end or raise, the finally
\* block is next and its return discards the exception.
RunInit(n, k) ==
    /\ Alive(n)
    /\ request[n][k].pc = "init"
    /\ \/ /\ group[n] # "initialized"
          /\ group' = [group EXCEPT ![n] = "initialized"]
       \/ UNCHANGED group
    /\ SetRequest(n, k, [request[n][k] EXCEPT !.pc = "finally"])
    /\ UNCHANGED <<nodes_list, node_id, process, pipeline>>

\* gpt2_worker.py:116-121 finally: destroy_process_group(); return. The
\* handler's locals end with the call.
RunFinally(n, k) ==
    /\ Alive(n)
    /\ request[n][k].pc = "finally"
    /\ IF group[n] = "initialized"
       THEN /\ group' = [group EXCEPT ![n] = "destroyed"]
            /\ SetRequest(n, k, [NoRequest EXCEPT !.pc = "returned"])
       ELSE /\ SetRequest(n, k, [NoRequest EXCEPT !.pc = "failed",
                                                  !.error = "DestroyError"])
            /\ UNCHANGED group
    /\ UNCHANGED <<nodes_list, node_id, process, pipeline>>

\* service.py:138-150 _handle_interrupt: cleanup() deletes the node from
\* the registry, then exit(0) is raised in the main thread
HandleInterrupt(n) ==
    /\ process[n] = "serving"
    /\ nodes_list' = IF node_id[n] # NoId THEN Without(nodes_list, node_id[n])
                     ELSE nodes_list
    /\ process' = [process EXCEPT ![n] = "interrupted"]
    /\ UNCHANGED <<node_id, group, request, pipeline>>

\* The interpreter exits; request threads that were still running are gone.
Exit(n) ==
    /\ process[n] = "interrupted"
    /\ process' = [process EXCEPT ![n] = "exited"]
    /\ request' = [request EXCEPT ![n] =
                      [k \in Requests |->
                          IF request[n][k].pc = "idle" THEN NoRequest
                          ELSE [NoRequest EXCEPT !.pc = "gone"]]]
    /\ UNCHANGED <<nodes_list, node_id, group, pipeline>>

SvcInit ==
    /\ world_size = 0
    /\ total_layers = 0
    /\ input_data = <<104>>
    /\ pc = [r \in Procs |-> "start"]
    /\ InitRun

SvcNext ==
    \/ \E n \in Nodes : Initialize(n)
    \/ \E n \in Nodes : DeleteNode(n)
    \/ \E n \in Nodes : \E k \in Requests : ExecuteEnter(n, k)
    \/ \E n \in Nodes : \E k \in Requests : RunInit(n, k)
    \/ \E n \in Nodes : \E k \in Requests : RunFinally(n, k)
    \/ \E n \in Nodes : HandleInterrupt(n)
    \/ \E n \in Nodes : Exit(n)

SvcSpec == SvcInit /\ [][SvcNext]_vars


\* Request k of node n is inside worker.run (init ... destroy).
InRun(n, k) == request[n][k].pc \in {"init", "finally"}


\* C21: an interrupt signal at a node causes its process group to be torn
\* down before the process exits: no process has exited with its group
\* still initialized.
C21_InterruptTearsDown ==
    \A n \in Nodes : process[n] = "exited" => group[n] # "initialized"

\* C22: runs are serialized at every node: at no node are two requests
\* inside worker.run at the same time.
C22_RunsSerialized ==
    \A n \in Nodes : Cardinality({k \in Requests : InRun(n, k)}) <= 1

\* C23: whenever a run is under way, its rank is the 0-based position of
\* the first occurrence of the node's own id in the registry list the
\* request fetched, its world_size is the length of that list, and
\* 0 <= rank < world_size.
C23_RankFromRegistry ==
    \A n \in Nodes : \A k \in Requests :
        InRun(n, k) =>
            LET q == request[n][k]
            IN /\ q.world_size = Len(q.node_ids)
               /\ 0 <= q.rank
               /\ q.rank < q.world_size
               /\ q.node_ids[q.rank + 1] = node_id[n]
               /\ \A j \in 1..q.rank : q.node_ids[j] # node_id[n]

\* Node 1 runs as rank 0 of 1 after the entry of node 0 was deleted.
C23_Witness ==
    /\ request[1][1].pc = "finally"
    /\ request[1][1].node_ids = <<1>>
    /\ request[1][1].rank = 0
    /\ request[1][1].world_size = 1


(* ------------------------ generation options -------------------------- *)
\* Options a caller may want: the ones run_worker uses, a short greedy
\* generation, a cooler sampling (temperature in tenths).
GenConfigs ==
    { [max_new_tokens |-> 300, do_sample |-> TRUE, top_k |-> 50, temperature |-> 10],
      [max_new_tokens |-> 1, do_sample |-> FALSE, top_k |-> 50, temperature |-> 10],
      [max_new_tokens |-> 300, do_sample |-> TRUE, top_k |-> 10, temperature |-> 7] }

\* The options model.generate runs with, in the caller's terms.
UsedConfig(r) ==
    LET kwargs == GenerateKwargs(r)
    IN [max_new_tokens |-> kwargs.max_length - Len(input_ids[r].data),
        do_sample |-> kwargs.do_sample,
        top_k |-> kwargs.top_k,
        temperature |-> kwargs.temperature]

\* As TextInit, with a caller who wants some generation options.
GenInit ==
    /\ ServiceInit
    /\ Elsewhere
    /\ generation_config \in GenConfigs
    /\ world_size = 2
    /\ total_layers = 2
    /\ input_data \in Prompts
    /\ pc = (0 :> "recv_len" @@ 1 :> "generate")
    /\ pg = [r \in Procs |-> "initialized"]
    /\ layer_range = [r \in Procs |-> Partition(total_layers, world_size, r)]
    /\ received_text = [r \in Procs |-> None]
    /\ hidden_states = [r \in Procs |-> NoTensor]
    /\ \E t \in Texts :
          input_ids = (0 :> NoTensor @@
                       1 :> [shape |-> <<1, Len(t)>>, data |-> Tokenize(t)])
    /\ shape_buf = [r \in Procs |-> NoTensor]
    /\ text_length = [r \in Procs |-> 0]
    /\ recv_buffer = [r \in Procs |-> NoTensor]
    /\ generated_sentence = [r \in Procs |-> <<>>]
    /\ chan = [l \in Links |-> <<>>]
    /\ posted = [r \in Procs |-> FALSE]
    /\ failure = [r \in Procs |-> NoFailure]
    /\ outcome = [r \in Procs |-> Running]
    /\ log = [r \in Procs |-> <<>>]

GenSpec == GenInit /\ [][TextNext]_vars

\* C24: the generation options the caller supplied are the ones the final
\* rank's generate call runs with.
C24_ConfigPassedThrough ==
    Called(Last, "compute", Last, "generate") =>
        UsedConfig(Last) = generation_config


(* --------------------------- message kinds ---------------------------- *)
\* The runs of Spec once more, every configuration and every failure
\* included: the properties of the message traffic below (which messages,
\* on which links, in which order, with which shapes) are examined over
\* these behaviours separately from the properties of the return values.
ProtocolSpec == Init /\ [][Next]_vars

TextKinds == {"len", "text"}
ForwardKinds == {"hs_shape", "hs", "ids_shape", "ids"}

\* number of calls op of rank r for a message of kind what
CallCount(r, op, what) ==
    Cardinality({i \in DOMAIN log[r] : log[r][i].op = op /\ log[r][i].what = what})

\* The run has ended at every rank and rank 0 has returned the text.
Successful ==
    /\ world_size >= 2
    /\ \A r \in Procs : Ended(r)
    /\ outcome[0].kind = "returned"
    /\ outcome[0].value.tag = "str"

\* C25: text frames (length, then bytes) are sent only by the final rank
\* and only to rank 0, received only by rank 0 from the final rank, and a
\* successful run has sent exactly one.
C25_TextFrameEndpoints ==
    /\ \A r \in Procs : \A i \in DOMAIN log[r] :
          LET e == log[r][i]
          IN (IsTransfer(e) /\ e.what \in TextKinds) =>
                /\ e.op = "send" => (r = Last /\ r > 0 /\ e.peer = 0)
                /\ e.op = "recv" => (r = 0 /\ Last > 0 /\ e.peer = Last)
    /\ Successful =>
          /\ CallCount(Last, "send", "len") = 1
          /\ CallCount(Last, "send", "text") = 1
          /\ CallCount(0, "recv", "len") = 1
          /\ CallCount(0, "recv", "text") = 1

C25_Witness ==
    /\ world_size = 3
    /\ Successful
    /\ Called(2, "send", 0, "text")
    /\ Called(0, "recv", 2, "text")
    /\ CallCount(1, "send", "hs") = 1
    /\ CallCount(1, "send", "text") = 0


(* ------------------------------ retries ------------------------------- *)
\* number of entries of rank r's log equal to e
Occurrences(r, e) == Cardinality({i \in DOMAIN log[r] : log[r][i] = e})

\* C26: nothing is retried inside a run: a rank calls init_process_group
\* at most once, makes each send and each recv of the protocol at most
\* once, and its run ends (is reported) once: an outcome, once there, is
\* never replaced.
C26_NoRetries ==
    /\ [](\A r \in Procs : \A i \in DOMAIN log[r] :
            log[r][i].op \in {"init", "send", "recv"} =>
                Occurrences(r, log[r][i]) = 1)
    /\ [][\A r \in Procs :
            outcome[r] # Running => (outcome'[r] = outcome[r] /\ log'[r] = log[r])]_vars

\* A run that failed at rank 1's receive and was not repeated.
C26_Witness ==
    /\ world_size = 2
    /\ failure[1] = [site |-> "recv_hs", error |-> "TransportError"]
    /\ Ended(0) /\ Ended(1)
    /\ Occurrences(1, [op |-> "recv", peer |-> 0, what |-> "hs"]) = 1
    /\ Occurrences(0, [op |-> "init", peer |-> 0, what |-> "process_group"]) = 1


(* --------------------------- interior ranks --------------------------- *)
Interior(r) == 0 < r /\ r < Last

\* tokenizer.encode(input_data, return_tensors="pt"), worker.py:55
TokenIds == [shape |-> <<1, Len(input_data)>>, data |-> Tokenize(input_data)]

\* C27: an interior rank receives activations and token ids from r-1,
\* applies its own layers to the activations, sends both to r+1 and
\* finishes without a result; the token ids pass unchanged, so the final
\* rank receives exactly the ids rank 0 produced from the input.
C27_InteriorForwards ==
    /\ \A r \in Procs : Interior(r) =>
          /\ input_ids[r] # NoTensor => input_ids[r] = TokenIds
          /\ Called(r, "compute", r, "layers") =>
                /\ Delivered(r - 1, r, ForwardKinds)
                /\ hidden_states[r] =
                      ApplyLayers(hidden_states[r - 1], layer_range[r].start,
                                  layer_range[r].end)
          /\ (Ended(r) /\ ~Failed(r)) =>
                /\ \A w \in ForwardKinds : Called(r, "send", r + 1, w)
                /\ SendCount(r, r + 1) = 4
                /\ \A d \in Procs : d # r + 1 => SendCount(r, d) = 0
                /\ outcome[r] = Returned(None)
          /\ \A i \in DOMAIN chan[<<r, r + 1>>] :
                LET m == chan[<<r, r + 1>>][i]
                IN \/ m = ShapeTensor(hidden_states[r].shape)
                   \/ m = hidden_states[r]
                   \/ m = ShapeTensor(TokenIds.shape)
                   \/ m = TokenIds
    /\ (world_size >= 2 /\ input_ids[Last] # NoTensor) => input_ids[Last] = TokenIds

\* Rank 1 of 3 has finished and rank 2 holds the two token ids of the
\* prompt.
C27_Witness ==
    /\ world_size = 3
    /\ Ended(1) /\ ~Failed(1)
    /\ input_data = <<233, 104>>
    /\ input_ids[2] = TokenIds
    /\ total_layers = 3
    /\ hidden_states[1].data.layers = <<0, 1>>


(* --------------------------- layers applied --------------------------- *)
\* The sequence a, a+1, .., b-1.
LayerSeq(a, b) == [i \in 1..(IF b > a THEN b - a ELSE 0) |-> a + i - 1]

\* The transformer blocks the activations held by rank r have passed.
LayersPassed(r) == hidden_states[r].data.layers

\* C28: in a failure-free run a rank that has run its layer loop has
\* applied exactly the layers start..end-1 of its own range, in increasing
\* order, on top of what its predecessor had applied; the activations at
\* the end of the final rank's loop have passed layers 0..total_layers-1,
\* each once, in increasing order.
C28_EveryLayerOnce ==
    FailureFree =>
        /\ \A r \in Procs : Called(r, "compute", r, "layers") =>
              LET own == LayerSeq(layer_range[r].start, layer_range[r].end)
              IN /\ r = 0 => LayersPassed(r) = own
                 /\ r > 0 => LayersPassed(r) = LayersPassed(r - 1) \o own
        /\ (world_size >= 1 /\ Called(Last, "compute", Last, "layers")) =>
              LayersPassed(Last) = LayerSeq(0, total_layers)

\* 3 layers over 3 ranks: the last rank has applied layer 2 after 0 and 1.
C28_Witness ==
    /\ world_size = 3
    /\ total_layers = 3
    /\ FailureFree
    /\ Called(2, "compute", 2, "layers")
    /\ LayersPassed(1) = <<0, 1>>
    /\ LayersPassed(2) = <<0, 1, 2>>


(* ------------------------- order on the links ------------------------- *)
ForwardOrder == <<"hs_shape", "hs", "ids_shape", "ids">>
ReturnOrder == <<"len", "text">>

\* The messages of the link s -> d, in protocol order: rank 0 and the
\* interior ranks send to the next rank, the final rank of two or more
\* sends to rank 0, and no other link is used.
LinkOrder(s, d) ==
    IF d = s + 1 /\ (s = 0 \/ s < Last) THEN ForwardOrder
    ELSE IF s = Last /\ s > 0 /\ d = 0 THEN ReturnOrder
    ELSE <<>>

\* The kinds of rank r's calls op with the given peer, in call order.
KindSeq(r, op, peer) ==
    LET sel == SelectSeq(log[r], LAMBDA e : e.op = op /\ e.peer = peer)
    IN [i \in 1..Len(sel) |-> sel[i].what]

IsPrefix(a, b) == Len(a) <= Len(b) /\ \A i \in 1..Len(a) : a[i] = b[i]

\* C29: on every link the sender's sends and the receiver's receives follow
\* the same order: shape, payload, id shape, ids on a forward link r ->
\* r+1, length then bytes on the return link; a successful run has made
\* exactly four sends and receives on each forward link and two on the
\* return link.
C29_LinkOrder ==
    /\ \A r \in Procs : \A i \in DOMAIN log[r] :
          /\ log[r][i].op = "send" => LinkOrder(r, log[r][i].peer) # <<>>
          /\ log[r][i].op = "recv" => LinkOrder(log[r][i].peer, r) # <<>>
    /\ \A s \in Procs : \A d \in {s + 1, 0} :
          LinkOrder(s, d) # <<>> =>
             /\ IsPrefix(KindSeq(s, "send", d), LinkOrder(s, d))
             /\ d \in Procs => IsPrefix(KindSeq(d, "recv", s), LinkOrder(s, d))
    /\ Successful =>
          /\ \A s \in Procs : s < Last =>
                /\ KindSeq(s, "send", s + 1) = ForwardOrder
                /\ KindSeq(s + 1, "recv", s) = ForwardOrder
          /\ KindSeq(Last, "send", 0) = ReturnOrder
          /\ KindSeq(0, "recv", Last) = ReturnOrder

C29_Witness ==
    /\ world_size = 3
    /\ Successful
    /\ KindSeq(1, "send", 2) = ForwardOrder
    /\ KindSeq(2, "recv", 1) = ForwardOrder
    /\ KindSeq(0, "recv", 2) = ReturnOrder


(* ----------------------- dimensions of the shapes --------------------- *)
\* The shape message a rank is sending or about to send at a send site
\* for a shape or length; NoTensor elsewhere.
ShapeBeingSent(r) ==
    IF pc[r] \in {"send_hs_shape", "fwd_hs_shape"}
    THEN ShapeTensor(hidden_states[r].shape)
    ELSE IF pc[r] \in {"send_ids_shape", "fwd_ids_shape"}
    THEN ShapeTensor(input_ids[r].shape)
    ELSE IF pc[r] = "send_len" THEN [shape |-> <<1>>, data |-> <<text_length[r]>>]
    ELSE NoTensor

\* The number of elements of the buffer a rank receives a shape or length
\* into: torch.zeros(3), torch.zeros(2), torch.zeros(1); 0 elsewhere.
ShapeBufferSize(r) ==
    IF pc[r] = "recv_hs_shape" THEN 3
    ELSE IF pc[r] = "recv_ids_shape" THEN 2
    ELSE IF pc[r] = "recv_len" THEN 1
    ELSE 0

\* C30: at every transfer site the shape vector the sender transmits has as
\* many entries as the receiver's buffer for it: 3 for activations, 2 for
\* token ids, 1 for the text length, on the first link as on the links
\* where an interior rank sends on what it received.
C30_ShapeDimensionsAgree ==
    /\ \A s \in Procs :
          /\ pc[s] \in {"send_hs_shape", "fwd_hs_shape"} =>
                Numel(ShapeBeingSent(s).shape) = 3
          /\ pc[s] \in {"send_ids_shape", "fwd_ids_shape"} =>
                Numel(ShapeBeingSent(s).shape) = 2
          /\ pc[s] = "send_len" => Numel(ShapeBeingSent(s).shape) = 1
    /\ \A r \in Procs :
          (world_size >= 2 /\ ShapeBufferSize(r) > 0 /\ chan[<<Pred(r), r>>] # <<>>) =>
              Numel(Head(chan[<<Pred(r), r>>]).shape) = ShapeBufferSize(r)
    /\ \A r \in Procs : r > 0 =>
          /\ hidden_states[r] # NoTensor => Len(hidden_states[r].shape) = 3
          /\ input_ids[r] # NoTensor => Len(input_ids[r].shape) = 2

\* Rank 2 of 3 is about to receive the 3-entry shape rank 1 sends on.
C30_Witness ==
    /\ world_size = 3
    /\ pc[2] = "recv_hs_shape"
    /\ pc[1] = "fwd_hs_shape"
    /\ chan[<<1, 2>>] = << ShapeTensor(hidden_states[1].shape) >>
    /\ Len(hidden_states[1].shape) = 3


(* ---------------------- inside model.generate ------------------------- *)
\* The limit model.generate runs with at rank r.
MaxLength(r) == GenerateKwargs(r).max_length

\* Tokens the sampling may pick at a step: a letter or the end of sequence.
SampledTokens == {105, EosToken}

\* The sequence has ended: the end-of-sequence token was sampled (the
\* prompt's own tokens are never that token) or max_length is reached.
GenerationFinished(r) ==
    \/ Len(generated_ids) >= MaxLength(r)
    \/ /\ Len(generated_ids) > Len(input_ids[r].data)
       /\ generated_ids[Len(generated_ids)] = EosToken

\* worker.py:111 model.generate is entered with the received token ids
GenerateEnter(r) ==
    /\ r > 0
    /\ pc[r] = "generate"
    /\ generated_ids' = GenerateInput(r).input_ids.data
    /\ Goto(r, "sampling")
    /\ UNCHANGED <<world_size, total_layers, input_data, service, broadcasting,
                   clients,
                   generation_config, pg, layer_range, received_text, locals,
                   chan, posted, failure, outcome, log>>

\* worker.py:111-118 one step of the sampling loop of model.generate
\* (do_sample=True): one more token, or the model fails
SampleToken(r) ==
    /\ r > 0
    /\ pc[r] = "sampling"
    /\ ~GenerationFinished(r)
    /\ \/ /\ \E tok \in SampledTokens : generated_ids' = Append(generated_ids, tok)
          /\ UNCHANGED <<pc, failure, chan, posted, log>>
       \/ /\ ComputeFail(r)
          /\ UNCHANGED generated_ids
    /\ UNCHANGED <<world_size, total_layers, input_data, service, broadcasting,
                   clients,
                   generation_config, pg, layer_range, received_text, locals,
                   outcome>>

\* worker.py:111-118 model.generate returns generated_ids; the run is
\* followed up to here, before tokenizer.decode of line 119.
GenerateReturn(r) ==
    /\ r > 0
    /\ pc[r] = "sampling"
    /\ GenerationFinished(r)
    /\ Goto(r, "decode_ids")
    /\ Logged(r, "compute", r, "generate")
    /\ UNCHANGED <<world_size, total_layers, input_data, service, broadcasting,
                   clients,
                   generation_config, generated_ids, pg, layer_range,
                   received_text, locals, chan, posted, failure, outcome>>

\* The last rank (1 of 2) stands at worker.py:110 holding the token ids of
\* a prompt.
DecodeInit ==
    /\ ServiceInit
    /\ Elsewhere
    /\ generation_config = NoConfig
    /\ world_size = 2
    /\ total_layers = 2
    /\ input_data \in Prompts
    /\ pc = (0 :> "recv_len" @@ 1 :> "generate")
    /\ pg = [r \in Procs |-> "initialized"]
    /\ layer_range = [r \in Procs |-> Partition(total_layers, world_size, r)]
    /\ received_text = [r \in Procs |-> None]
    /\ hidden_states = [r \in Procs |-> NoTensor]
    /\ input_ids = (0 :> NoTensor @@
                    1 :> [shape |-> <<1, Len(input_data)>>,
                          data |-> Tokenize(input_data)])
    /\ shape_buf = [r \in Procs |-> NoTensor]
    /\ text_length = [r \in Procs |-> 0]
    /\ recv_buffer = [r \in Procs |-> NoTensor]
    /\ generated_sentence = [r \in Procs |-> <<>>]
    /\ chan = [l \in Links |-> <<>>]
    /\ posted = [r \in Procs |-> FALSE]
    /\ failure = [r \in Procs |-> NoFailure]
    /\ outcome = [r \in Procs |-> Running]
    /\ log = [r \in Procs |-> <<>>]

DecodeNext ==
    \/ \E r \in Procs : GenerateEnter(r)
    \/ \E r \in Procs : SampleToken(r)
    \/ \E r \in Procs : GenerateReturn(r)

DecodeSpec == DecodeInit /\ [][DecodeNext]_vars

\* The final rank is inside the generate call.
Generating == pc[Last] \in {"generate", "sampling"}

\* The number of steps the generate call can still take at most when it
\* may add 300 tokens to the token ids it received.
Remaining ==
    IF pc[Last] = "generate" THEN 301
    ELSE Len(input_ids[Last].data) + 300 - Len(generated_ids)

\* C31: the sequence the final rank generates never has more than 300
\* tokens beyond the token ids it received, and the generate call ends:
\* every step inside the call either leaves it or brings it closer to the
\* limit.
C31_GenerationBounded ==
    /\ [](Len(generated_ids) <= Len(input_ids[Last].data) + 300)
    /\ [][Generating => (~Generating' \/ (Remaining' < Remaining /\ Remaining' >= 0))]_vars

\* The generation was stopped by the limit, 300 new tokens and no end of
\* sequence, and the call returned.
C31_Witness ==
    /\ pc[Last] = "decode_ids"
    /\ Len(generated_ids) = Len(input_ids[Last].data) + 300
    /\ generated_ids[Len(generated_ids)] # EosToken


(* ------------------------- peers of the calls ------------------------- *)
\* C32: for every world_size >= 1, every destination of a send and every
\* source of a recv a rank calls is another rank of the group.
C32_PeersInGroup ==
    world_size >= 1 =>
        \A r \in Procs : \A i \in DOMAIN log[r] :
            IsTransfer(log[r][i]) =>
                /\ log[r][i].peer \in 0..(world_size - 1)
                /\ log[r][i].peer # r


(* ------------------ what flows into the generate call ----------------- *)
\* Activations a final rank may have received: computed from a prompt or
\* from another text, by some of the earlier layers.
Activations ==
    { [shape |-> <<1, Len(t), HiddenDim>>,
       data |-> [ids |-> Tokenize(t), layers |-> ls]] :
      t \in Prompts \cup { <<8364>> }, ls \in { <<>>, <<0>> } }

\* The final rank (1 of 2) stands at worker.py:106 holding some activations
\* and the token ids of a prompt, rank 0 at worker.py:76 waiting for the
\* result.
FlowInit ==
    /\ ServiceInit
    /\ Elsewhere
    /\ generation_config = NoConfig
    /\ world_size = 2
    /\ total_layers = 2
    /\ input_data \in Prompts
    /\ pc = (0 :> "recv_len" @@ 1 :> "compute")
    /\ pg = [r \in Procs |-> "initialized"]
    /\ layer_range = [r \in Procs |-> Partition(total_layers, world_size, r)]
    /\ received_text = [r \in Procs |-> None]
    /\ \E h \in Activations : hidden_states = (0 :> NoTensor @@ 1 :> h)
    /\ input_ids = (0 :> NoTensor @@
                    1 :> [shape |-> <<1, Len(input_data)>>,
                          data |-> Tokenize(input_data)])
    /\ shape_buf = [r \in Procs |-> NoTensor]
    /\ text_length = [r \in Procs |-> 0]
    /\ recv_buffer = [r \in Procs |-> NoTensor]
    /\ generated_sentence = [r \in Procs |-> <<>>]
    /\ chan = [l \in Links |-> <<>>]
    /\ posted = [r \in Procs |-> FALSE]
    /\ failure = [r \in Procs |-> NoFailure]
    /\ outcome = [r \in Procs |-> Running]
    /\ log = [r \in Procs |-> <<>>]

FlowNext ==
    \/ \E r \in Procs : LayerCompute(r)
    \/ \E r \in Procs : Generate(r)
    \/ \E r \in Procs : SendLength(r)
    \/ \E r \in Procs : SendText(r)
    \/ \E r \in Procs : Rank0RecvLength(r)
    \/ \E r \in Procs : Rank0RecvText(r)
    \/ \E r \in Procs : Rank0Decode(r)
    \/ \E r \in Procs : Finally(r)

FlowSpec == FlowInit /\ [][FlowNext]_vars

\* The texts generation and decoding can yield at a final rank that holds
\* the activations hs and the token ids ids.
SentencesFrom(hs, ids) ==
    { Detokenize(GenerateInputOf(hs, ids).input_ids.data \o Take(cont, 300)) :
      cont \in Continuations }

\* C33: the activations do not flow into the generate call: what the final
\* rank hands to it, the text it generates and the text rank 0 returns are
\* what they could equally be had the final rank held any other
\* activations and the same token ids.
C33_ActivationsDoNotFlow ==
    \A h \in Activations :
        /\ pc[Last] = "generate" =>
              GenerateInputOf(h, input_ids[Last]) = GenerateInput(Last)
        /\ Called(Last, "compute", Last, "generate") =>
              generated_sentence[Last] \in SentencesFrom(h, input_ids[Last])
        /\ (outcome[0].kind = "returned" /\ outcome[0].value.tag = "str") =>
              outcome[0].value.text \in SentencesFrom(h, input_ids[Last])

\* Rank 0 has returned a text generated from the prompt <<233, 104>> while
\* the final rank held activations computed from another text.
C33_Witness ==
    /\ outcome[0] = Returned(Str(<<233, 104, 8364>>))
    /\ hidden_states[Last].data.ids = Tokenize(<<104>>)
    /\ input_ids[Last].data = Tokenize(<<233, 104>>)


(* ------------------------ the cleanup block --------------------------- *)
\* C34: destroy_process_group is only called on a group that the same run
\* initialized: a rank that has called it had an initialized group, which
\* is now destroyed.
C34_DestroyOnlyInitialized ==
    \A r \in Procs : DestroyCalls(r) > 0 => pg[r] = "destroyed"

\* C35: the value the cleanup block returns is defined on every path into
\* it: whatever step failed, received_text has been assigned when the
\* block is entered.
C35_ResultAssigned ==
    \A r \in Procs : pc[r] = "finally" => received_text[r] # Unbound


(* ----------------------- broadcast of a request ----------------------- *)
\* The node whose Service holds the registry id, if any.
Holder(id) == {n \in Nodes : node_id[n] = id}

\* service.py:100-110 initialize: POST /nodes; the registry appends the new
\* node (form_mock.py:34-67). When the POST fails node_id stays None and
\* run_api's .index raises. The processes are alike and the ids fresh, so
\* they are numbered in the order in which they start and the n-th gets
\* the id n.
Register(n) ==
    /\ process[n] = "starting"
    /\ \A m \in Nodes : m < n => process[m] # "starting"
    /\ \/ /\ nodes_list' = Append(nodes_list, n)
          /\ node_id' = [node_id EXCEPT ![n] = n]
          /\ process' = [process EXCEPT ![n] = "registered"]
       \/ /\ process' = [process EXCEPT ![n] = "exited"]
          /\ UNCHANGED <<nodes_list, node_id>>
    /\ UNCHANGED <<group, request, world_size, total_layers, input_data, pc,
                   pg, layer_range, received_text, locals, chan, posted,
                   failure, outcome, log, generation_config, decoding,
                   broadcasting, clients>>

\* service.py:126-133 run_api: the rank is read from the registry again and
\* the port is 8000 + rank; .index raises when the id is no longer listed
RunApi(n) ==
    /\ process[n] = "registered"
    /\ IF Contains(nodes_list, node_id[n])
       THEN /\ port' = [port EXCEPT ![n] = 8000 + ListIndex(nodes_list, node_id[n])]
            /\ process' = [process EXCEPT ![n] = "serving"]
       ELSE /\ process' = [process EXCEPT ![n] = "exited"]
            /\ UNCHANGED port
    /\ UNCHANGED <<nodes_list, node_id, group, request, world_size,
                   total_layers, input_data, pc, pg, layer_range,
                   received_text, locals, chan, posted, failure, outcome, log,
                   generation_config, decoding, broadcast,
                   clients>>

\* service.py:68-73 /generate at node g: world_size is read from the
\* registry (the handler fails when the node's id is not listed)
GenerateRead(g) ==
    /\ process[g] = "serving"
    /\ broadcast.pc = "idle"
    /\ IF Contains(nodes_list, node_id[g])
       THEN broadcast' = [NoBroadcast EXCEPT !.pc = "pool", !.origin = g,
                                             !.max_workers = Len(nodes_list)]
       ELSE broadcast' = [NoBroadcast EXCEPT !.pc = "failed", !.origin = g]
    /\ UNCHANGED <<service, world_size, total_layers, input_data, pc, pg,
                   layer_range, received_text, locals, chan, posted, failure,
                   outcome, log, generation_config, decoding, port,
                   clients>>

\* service.py:19-45 broadcast_execute: the registry is read again, a thread
\* pool of max_workers = world_size threads is created and one POST
\* /execute per listed node is submitted to it
BroadcastList ==
    /\ broadcast.pc = "pool"
    /\ \/ broadcast' = [broadcast EXCEPT !.pc = "posting", !.nodes = nodes_list]
       \/ broadcast' = [broadcast EXCEPT !.pc = "failed"]
    /\ UNCHANGED <<service, world_size, total_layers, input_data, pc, pg,
                   layer_range, received_text, locals, chan, posted, failure,
                   outcome, log, generation_config, decoding, port,
                   clients>>

\* service.py:35 the port broadcast_execute addresses for the i-th node of
\* its list: 8000 + nodes.index(node)
AddressedPort(i) == 8000 + (i - 1)

\* The serving nodes the broadcast's requests reach: those that bound a
\* port the broadcast addresses.
Addressed ==
    {n \in Nodes : /\ process[n] = "serving"
                   /\ \E i \in 1..Len(broadcast.nodes) : port[n] = AddressedPort(i)}

\* service.py:85-92 the broadcast's /execute request arrives at a node,
\* which derives its (rank, world_size) from the registry
ExecuteArrive(n) ==
    /\ broadcast.pc = "posting"
    /\ n \in Addressed
    /\ ExecuteEnter(n, 1)

\* The registry is empty and no Service runs yet.
BcastInit ==
    /\ world_size = 0
    /\ total_layers = 0
    /\ input_data = <<104>>
    /\ pc = [r \in Procs |-> "start"]
    /\ InitRun

BcastNext ==
    \/ \E n \in Nodes : Register(n)
    \/ \E n \in Nodes : RunApi(n)
    \/ \E n \in Nodes : DeleteNode(n)
    \/ \E n \in Nodes : HandleInterrupt(n)
    \/ \E n \in Nodes : Exit(n)
    \/ \E n \in Nodes : GenerateRead(n)
    \/ BroadcastList
    \/ \E n \in Nodes : ExecuteArrive(n)

BcastSpec == BcastInit /\ [][BcastNext]_vars

\* The nodes that take part in the broadcast: their /execute handler has
\* derived a rank and a world_size and is about to start the run.
Participants == {n \in Nodes : broadcast.pc = "posting" /\ request[n][1].pc = "init"}

\* C36: the nodes that take part in one broadcast use the same world_size
\* and pairwise distinct ranks, and once every listed node takes part the
\* ranks are exactly 0..world_size-1.
C36_ConsistentRanks ==
    /\ \A n \in Participants : \A m \in Participants :
          /\ request[n][1].world_size = request[m][1].world_size
          /\ n # m => request[n][1].rank # request[m][1].rank
    /\ (Participants # {} /\ Cardinality(Participants) = Len(broadcast.nodes)) =>
          \A n \in Participants :
              {request[m][1].rank : m \in Participants} =
                  0..(request[n][1].world_size - 1)

\* C37: every serving node of the registry list bound the port the
\* broadcast addresses for its position in the list.
C37_PortsMatchPositions ==
    \A i \in 1..Len(nodes_list) : \A n \in Holder(nodes_list[i]) :
        process[n] = "serving" => port[n] = AddressedPort(i)

\* C38: the thread pool of the broadcast has at least as many threads as
\* the list read inside broadcast_execute has nodes.
C38_PoolCoversList ==
    broadcast.pc = "posting" => broadcast.max_workers >= Len(broadcast.nodes)


(* ---------------------- waiting for an operation ---------------------- *)
\* form-mcp/client/form_mcp_client.py, FormationMCPClient.wait_for_operation
\* polls GET /api/operations/<id> until the operation is completed or
\* failed, or the timeout has elapsed.  Time is counted in seconds.

\* The timeout arguments: None and 0..MaxTimeout; the check intervals.
Timeouts == {NoTimeout} \cup (0..MaxTimeout)
Intervals == 1..MaxInterval

\* The clock is followed up to a value beyond every timeout; later
\* instants are not told apart.
ClockCap == MaxTimeout + MaxInterval + 1

\* form_mcp_client.py:57-63 OperationStatus
Statuses == {"queued", "running", "completed", "failed", "cancelled"}

\* The statuses an operation never leaves.
FinalStatuses == {"completed", "failed", "cancelled"}

\* form_mcp_client.py:401 `if timeout and ...`: the truth value of the
\* timeout argument (None and 0 are false)
Truthy(timeout) == timeout # NoTimeout /\ timeout # 0

\* form_mcp_client.py:401 the timeout test at the head of the loop
TimedOut(w) == Truthy(w.timeout) /\ w.elapsed > w.timeout

\* The operation exists on the server and is queued; nobody waits yet.
WaitInit ==
    /\ world_size = 0
    /\ total_layers = 0
    /\ input_data = <<104>>
    /\ pc = [r \in Procs |-> "start"]
    /\ InitRun

\* The server makes the operation progress: queued, running, and then one
\* of the final statuses, which it keeps.
OperationAdvance ==
    /\ \/ /\ operation.status = "none"
          /\ operation' = [status |-> "queued"]
       \/ /\ operation.status = "queued"
          /\ \E s \in {"running", "failed", "cancelled"} :
                operation' = [status |-> s]
       \/ /\ operation.status = "running"
          /\ \E s \in FinalStatuses : operation' = [status |-> s]
    /\ UNCHANGED <<waiting, conversation_state, world_size, total_layers,
                   input_data, service, generation_config, decoding,
                   broadcasting, pc, pg, layer_range, received_text, locals,
                   chan, posted, failure, outcome, log>>

\* form_mcp_client.py:382-398 wait_for_operation is called for the
\* operation; start_time is taken
WaitCall ==
    /\ waiting.pc = "idle"
    /\ operation.status \in Statuses
    /\ \E t \in Timeouts, i \in Intervals :
          waiting' = [pc |-> "polling", timeout |-> t, check_interval |-> i,
                      elapsed |-> 0, outcome |-> "none"]
    /\ UNCHANGED <<operation, conversation_state, world_size, total_layers,
                   input_data, service, generation_config, decoding,
                   broadcasting, pc, pg, layer_range, received_text, locals,
                   chan, posted, failure, outcome, log>>

\* form_mcp_client.py:400-415 one turn of the `while True` loop up to the
\* sleep: the timeout test, the status request and the two exits
Poll ==
    /\ waiting.pc = "polling"
    /\ IF TimedOut(waiting)
       THEN waiting' = [waiting EXCEPT !.pc = "raised",
                                       !.outcome = "OperationError: timed out"]
       ELSE IF operation.status = "completed"
       THEN waiting' = [waiting EXCEPT !.pc = "returned", !.outcome = "result"]
       ELSE IF operation.status = "failed"
       THEN waiting' = [waiting EXCEPT !.pc = "raised",
                                       !.outcome = "OperationError: failed"]
       ELSE waiting' = [waiting EXCEPT !.pc = "sleeping"]
    /\ UNCHANGED <<operation, conversation_state, world_size, total_layers,
                   input_data, service, generation_config, decoding,
                   broadcasting, pc, pg, layer_range, received_text, locals,
                   chan, posted, failure, outcome, log>>

\* form_mcp_client.py:417 time.sleep(check_interval) returns and the loop
\* takes its next turn
Sleep ==
    /\ waiting.pc = "sleeping"
    /\ waiting' = [waiting EXCEPT
            !.pc = "polling",
            !.elapsed = IF @ + waiting.check_interval > ClockCap
                        THEN ClockCap ELSE @ + waiting.check_interval]
    /\ UNCHANGED <<operation, conversation_state, world_size, total_layers,
                   input_data, service, generation_config, decoding,
                   broadcasting, pc, pg, layer_range, received_text, locals,
                   chan, posted, failure, outcome, log>>

\* form_mcp_client.py:345-380 get_operation_status raises instead of
\* returning a status: the server cannot be reached or answers with an
\* error
StatusRequestFails ==
    /\ waiting.pc = "polling"
    /\ ~TimedOut(waiting)
    /\ \E e \in {"ApiError", "OperationError: not found"} :
          waiting' = [waiting EXCEPT !.pc = "raised", !.outcome = e]
    /\ UNCHANGED <<operation, conversation_state, world_size, total_layers,
                   input_data, service, generation_config, decoding,
                   broadcasting, pc, pg, layer_range, received_text, locals,
                   chan, posted, failure, outcome, log>>

WaitNext ==
    \/ OperationAdvance
    \/ WaitCall
    \/ Poll
    \/ Sleep
    \/ StatusRequestFails

\* The calling thread keeps running its loop: time.sleep returns and the
\* next turn is taken.  Neither the server's progress nor its failures
\* are promised.
WaitSpec == WaitInit /\ [][WaitNext]_vars /\ WF_vars(Poll \/ Sleep)

InWait == waiting.pc \in {"polling", "sleeping"}
WaitEnded == waiting.pc \in {"returned", "raised"}

\* C39: wait_for_operation always ends: whatever statuses are reported
\* and whatever the timeout (None and 0 included), once the operation has
\* reached a final status (completed, failed, cancelled) the wait does not
\* go on polling for ever; it returns the result for completed and raises
\* OperationError for failed and for an elapsed timeout.
C39_WaitEnds ==
    /\ [](waiting.outcome = "result" => operation.status = "completed")
    /\ [](waiting.outcome = "OperationError: failed"
            => operation.status = "failed")
    /\ [](waiting.outcome = "OperationError: timed out"
            => waiting.elapsed > waiting.timeout)
    /\ (InWait /\ operation.status \in FinalStatuses) ~> WaitEnded


(* ------------------- the two-LLM conversation service ------------------ *)
\* tests/pcai/backend/main.py: /start and /next change the module-level
\* conversation_state.  A text is represented by the LLM (1 or 2) that
\* generated it; NoText stands for None.

LLMs == {1, 2}
NoText == 0

\* main.py:23-27 Question(text=...)
Question(text) ==
    [text |-> text, response |-> NoText, follow_ups |-> <<>>, responses |-> <<>>]

\* main.py:29-32 Conversation
Conversation(q, asking, history) ==
    [current_question |-> q, asking_llm |-> asking, conversation_history |-> history]

\* main.py:59-87 generate_question(llm): the question is the llm's text
generate_question(llm) == llm

\* main.py:90-106 get_response(question, llm): the answer is the llm's text
get_response(llm) == llm

\* main.py:108-131 get_follow_up_questions(response, llm): the llm's
\* follow-up question, or no question when it answers 'no'
FollowUps(llm) == { <<>>, <<llm>> }

\* The conversation service has no conversation.
ConvInit ==
    /\ world_size = 0
    /\ total_layers = 0
    /\ input_data = <<104>>
    /\ pc = [r \in Procs |-> "start"]
    /\ InitRun

\* main.py:138-152 POST /start: llm1 generates the first question; an
\* exception (HTTP 500) leaves conversation_state as it was
start_conversation ==
    /\ \/ conversation_state' =
             Conversation(Question(generate_question(1)), 1, <<>>)
       \/ UNCHANGED conversation_state
    /\ UNCHANGED <<operation, waiting, world_size, total_layers, input_data,
                   service, generation_config, decoding, broadcasting, pc, pg,
                   layer_range, received_text, locals, chan, posted, failure,
                   outcome, log>>

\* main.py:166-168 the two LLMs of a /next call, by asking_llm
AskingLlm(c) == IF c.asking_llm = 1 THEN 1 ELSE 2
RespondingLlm(c) == IF c.asking_llm = 1 THEN 2 ELSE 1

\* main.py:185 asking_llm flips
Flipped(c) == IF c.asking_llm = 1 THEN 2 ELSE 1

\* main.py:186 new_asking_llm, computed from the flipped asking_llm
NewAskingLlm(asking) == IF asking = 1 THEN 2 ELSE 1

\* main.py:154-192 POST /next (a call before /start is answered with 400).
\* An exception raised by a call to an LLM ends the handler with HTTP 500
\* and keeps what was changed before it.
next_step ==
    /\ conversation_state # NoConversation
    /\ LET c == conversation_state
           current_q == c.current_question
       IN IF current_q.response = NoText
          THEN \* main.py:171-173 the question is answered
               \/ conversation_state' =
                     [c EXCEPT !.current_question.response =
                                   get_response(RespondingLlm(c))]
               \/ UNCHANGED conversation_state
          ELSE \E follow_ups \in FollowUps(AskingLlm(c)) :
               IF follow_ups # <<>>
               THEN \* main.py:178-182 a follow-up is asked and answered
                    /\ Len(current_q.follow_ups) < MaxFollowUps
                    /\ \/ conversation_state' =
                             [c EXCEPT
                                !.current_question.follow_ups = @ \o follow_ups,
                                !.current_question.responses =
                                    Append(@, get_response(RespondingLlm(c))),
                                !.current_question.response =
                                    get_response(RespondingLlm(c))]
                       \/ conversation_state' =
                             [c EXCEPT
                                !.current_question.follow_ups = @ \o follow_ups]
               ELSE \* main.py:183-189 the conversation moves on
                    /\ Len(c.conversation_history) < MaxHistory
                    /\ LET moved == [c EXCEPT
                                       !.conversation_history = Append(@, current_q),
                                       !.asking_llm = Flipped(c)]
                       IN \/ conversation_state' =
                                [moved EXCEPT !.current_question =
                                    Question(generate_question(
                                        NewAskingLlm(moved.asking_llm)))]
                          \/ conversation_state' = moved
                          \/ UNCHANGED conversation_state
    /\ UNCHANGED <<operation, waiting, world_size, total_layers, input_data,
                   service, generation_config, decoding, broadcasting, pc, pg,
                   layer_range, received_text, locals, chan, posted, failure,
                   outcome, log>>

ConvNext ==
    \/ start_conversation
    \/ next_step

ConvSpec == ConvInit /\ [][ConvNext]_vars

\* The LLM that is not llm.
OtherLlm(llm) == 3 - llm

\* C40: after any sequence of /start and /next calls asking_llm is 1 or 2,
\* the current question was generated by the LLM recorded as asking_llm,
\* and its answer, if it has one, was given by the other LLM.
C40_AskingLlmGeneratesQuestion ==
    conversation_state # NoConversation =>
        /\ conversation_state.asking_llm \in LLMs
        /\ conversation_state.current_question.text
              = conversation_state.asking_llm
        /\ conversation_state.current_question.response
              \in {NoText, OtherLlm(conversation_state.asking_llm)}

====
